---- MODULE Spec2Model ----
(***************************************************************************)
(* Logger (src/unnamed/part_001, lines 433-1832): the structured-log        *)
(* delivery pipeline.  The state is the class's static fields, the files    *)
(* on disk and the position of every pending asynchronous call.  One       *)
(* action is one run of JavaScript between two suspension points (await)   *)
(* of the single-threaded event loop; a call awaited as a whole            *)
(* (_writeFileWithRetry behind its mkdir) settles in one step, under an    *)
(* environment that says which of its fs calls fail.                       *)
(***************************************************************************)
EXTENDS Integers, Sequences, FiniteSets, TLC

\* ---------------------------------------------------------------- constants
MAX_CACHE_SIZE == 1000
MAX_UTILITY_CACHE == 100
SLACK_FAILURE_THRESHOLD == 3
SLACK_FAILURE_COOLDOWN_MS == 60000
SLACK_FALLBACK_COOLDOWN_MS == 60000
_SLACK_RETRY_LIMIT == 2
CACHE_SIZE_LIMIT == 1000
MAX_LOG_FILE_SIZE_BYTES == 5242880

LOG_ROOT == "logs"
CRITICAL_ROOT == "critical"
FALLBACK_MISSING_PATH_DIR == "logs_fallback/missing_path"
FALLBACK_SLACK_DIR == "logs_fallback/slack"
WRITE_ERRORS_ROOT == "logs_fallback/write_errors"
CRITICAL_WRITE_ERRORS_ROOT == "logs_fallback/critical_write_errors"
BATCH_WRITE_ERRORS_ROOT == "logs_fallback/batch_write_errors"
FallbackRoots == {WRITE_ERRORS_ROOT, CRITICAL_WRITE_ERRORS_ROOT, BATCH_WRITE_ERRORS_ROOT}

\* ------------------------------------------------------------------- bounds
\* The clock advances in steps of TickMs up to MaxNow.
TickMs == 60000
MaxNow == 120002

\* The burst scenario: MaxBurst deliveries in flight at once, the clock
\* advancing in steps of BurstTickMs up to MaxBurstNow.
MaxBurst == 6
BurstTickMs == 1000
MaxBurstNow == 1001
\* Log entries created in one behaviour, and public calls made in one.
MaxEntries == 3
MaxCalls == 1
\* Entries handed to sendToSlackCritical in the breaker scenario.
MaxOffered == 2
\* Entries of one writeLogs call, and of one writeLogBatchFile call.
MaxBatch == 3
\* Critical logs in one writeLogs call, and storage promises of one writeLogs
\* call whose primary write meets a failing file system.
MaxBatchCritical == 1
MaxFaults == 1
\* Direct writeToStorage calls on one file in the rotation scenario.
MaxRotateWrites == 2
\* Segments of a relative path handed to writeToStorage.
MaxSegments == 3
\* Midnights that pass in the route-lookup scenario.
MaxDays == 1
\* UTF-16 code units of a field value, initialization vectors drawn, and
\* encryption errors recorded in the encryption scenario.
MaxValueLen == 2
MaxIv == 1
MaxCryptErrors == 3
\* Calls of the public methods that end at their checks.
MaxEarlyCalls == 2
\* AutoLoader: the largest maxCacheSize and maxUtilityCache configured, and
\* the values a utility's nested field takes.
MaxCacheSize == 3
MaxUtilityCache == 2
MaxNested == 1
\* Values of the data field the path template reads.
MaxKey == 1
\* The cache scenario inserts up to CACHE_SIZE_LIMIT + MaxExtraKeys distinct keys
\* into each cache; a cache is used only while it is at most MaxSkew
\* insertions ahead of the other.
MaxExtraKeys == 2
MaxSkew == 0
\* The cache scenario may start CacheHeadroom insertions below the capacity.
CacheHeadroom == 10
\* crypto.randomBytes(4) is drawn from 0..MaxHash.
MaxHash == 0
\* Size in bytes of an ordinary serialized entry.
EntryBytes == 200

Entries == 1..MaxEntries
Flags == {"f1"}
EntrySizes == {EntryBytes, MAX_LOG_FILE_SIZE_BYTES}

VARIABLES
  now,                            \* Date.now() / DateTime.now(), in ms
  _SLACK_FAILURE_COUNT,           \* Logger._SLACK_FAILURE_COUNT
  _SLACK_COOLDOWN_UNTIL,          \* Logger._SLACK_COOLDOWN_UNTIL
  _SLACK_FALLBACK_COOLDOWN_UNTIL, \* Logger._SLACK_FALLBACK_COOLDOWN_UNTIL
  entry,                          \* per entry id: the log entry built by writeLog / writeLogs
  slackPc,                        \* per entry: where its sendToSlackCritical call stands
  slackRetryAttempts,             \* per entry: entry.__slackRetryAttempts
  slackTimers,                    \* pending setTimeout callbacks of _scheduleSlackRetry
  slackCalls,                     \* per entry: how often Slack.critical was invoked
  slackFallbacks,                 \* per entry: Slack-fallback records written
  slackFallbackPath,              \* per entry: the file its pending fallback write targets
  files,                          \* the file system: path -> [content, size]
  _PATH_CACHE,                    \* Logger._PATH_CACHE: its keys in insertion order
  _RESOLVE_CACHE,                 \* Logger._RESOLVE_CACHE: its keys in insertion order
  _ROUTE_CACHE,                   \* Logger._ROUTE_CACHE: [key, route] in insertion order
  pathKeysSeen,                   \* history: the keys ever put into _PATH_CACHE
  resolveKeysSeen,                \* history: the keys ever put into _RESOLVE_CACHE
  criticalWithinRoot,             \* _isPathWithinRoot(LOG_ROOT, CRITICAL_ROOT), fixed by the configuration
  LOGGING_ENABLED,                \* Logger.ENV.LOGGING_ENABLED
  LOG_ENCRYPTION_KEY,             \* Logger.ENV.LOG_ENCRYPTION_KEY: "absent", "invalid" or "valid"
  _ENCRYPTION_KEY_BUFFER,         \* Logger._ENCRYPTION_KEY_BUFFER: "undefined", "null" or "key"
  encryptionErrors,               \* history: ErrorHandler.addError calls of the encryption code
  cryptEntry,                     \* the entry handed to _applyEncryption and decryptEntry
  entryErrors,                    \* history: ErrorHandler.addError calls of the public entry points
  options,                        \* AutoLoader this.options: maxCacheSize, maxUtilityCache, deepCloneUtilities
  loadedModuleCache,              \* AutoLoader this.loadedModuleCache: its keys in insertion order
  cacheAccessOrder,               \* AutoLoader this.cacheAccessOrder: its keys in insertion order
  loadedCoreUtilities,            \* AutoLoader this.loadedCoreUtilities: [frozen, props], props: name -> nested value
  loadedUtilityNames,             \* AutoLoader this.loadedUtilityNames
  returned,                       \* the object getCoreUtilities / loadCoreUtilities returned last
  callApi,                        \* the public method called last
  callPc,                         \* where that call stands
  callError,                      \* what it threw: "none", "caller" (bad arguments), "io"
  callEntries,                    \* the entry ids it built
  calls,                          \* public calls made so far
  tasks,                          \* the storage promises of the call
  slackEntries,                   \* the entries it still has to hand to sendToSlackCritical
  lastStep                        \* history: the step taken last, [op, e]

breakerVars == <<_SLACK_FAILURE_COUNT, _SLACK_COOLDOWN_UNTIL,
                 _SLACK_FALLBACK_COOLDOWN_UNTIL>>
slackVars == <<slackPc, slackRetryAttempts, slackTimers, slackCalls, slackFallbacks,
               slackFallbackPath>>
cacheVars == <<_PATH_CACHE, _RESOLVE_CACHE, _ROUTE_CACHE, pathKeysSeen, resolveKeysSeen>>
callVars == <<callApi, callPc, callError, callEntries, calls, tasks, slackEntries>>
cryptVars == <<LOG_ENCRYPTION_KEY, _ENCRYPTION_KEY_BUFFER, encryptionErrors, cryptEntry>>
moduleVars == <<loadedModuleCache, cacheAccessOrder>>
utilityVars == <<loadedCoreUtilities, loadedUtilityNames, returned>>
loaderVars == <<options, moduleVars, utilityVars>>
envVars == <<criticalWithinRoot, LOGGING_ENABLED, cryptVars, entryErrors, loaderVars>>
vars == <<now, breakerVars, entry, slackVars, files, cacheVars, envVars, callVars, lastStep>>

\* ------------------------------------------------------------- file system
\* fs error codes the environment can raise; "none" is success.
ErrorCodes == {"EACCES", "EPERM", "ENOSPC"}
Faults == {"none"} \cup ErrorCodes

\* What the environment does to one attempt of _writeFileWithRetry: the step
\* of the attempt that fails and its code.  "rotate": fs.promises.stat or
\* fs.promises.rename inside _rotateLogFileIfNeeded; "write": fs.promises.writeFile.
AttemptEnvs ==
  {[at |-> "none", code |-> "none"]} \cup [at : {"rotate", "write"}, code : ErrorCodes]

NoFault == [mkdir |-> "none", attempts |-> [a \in 1..2 |-> [at |-> "none", code |-> "none"]]]

\* The environment of one mkdir followed by one _writeFileWithRetry.  Calls
\* that are never reached (after a failing mkdir, after a successful
\* attempt) are listed as not failing.
WriteEnvs ==
  {env \in [mkdir : Faults, attempts : [1..2 -> AttemptEnvs]] :
     /\ env.mkdir # "none" => env.attempts[1].at = "none"
     /\ env.attempts[1].at = "none" => env.attempts[2].at = "none"}

\* A path: root directory, sub-directory under it, the expanded template (flag
\* and data key; key 0 stands for the placeholder's own name), the ".critical"
\* marker and the suffixes appended before the extension.
NoPath == [root |-> "", sub |-> "", base |-> <<>>, crit |-> FALSE, suffix |-> <<>>]

\* What a file holds: a serialized entry ("entry"), an entry with its
\* missing placeholders ("missing"), an entry with its Slack error
\* ("slack"), a write-error record ("write_error") or a batch ("batch").
Content(kind, e, attemptedPath, errorCode, entryCount) ==
  [kind |-> kind, ev |-> e, attemptedPath |-> attemptedPath, errorCode |-> errorCode,
   entryCount |-> entryCount]

_isPermissionError_EaccesOnly(error) == error = "EACCES"

_isPermissionError(error) == error = "EACCES" \/ error = "EPERM"

_appendTimestampToPath(relativePath, timestamp) ==
  [relativePath EXCEPT !.suffix = Append(@, <<"ts", timestamp>>)]

_appendSuffixBeforeExtension(relativePath, suffix) ==
  [relativePath EXCEPT !.suffix = Append(@, suffix)]

_buildFallbackRelativePath(baseRelativePath, fileTimestamp, hash) ==
  _appendSuffixBeforeExtension(_appendTimestampToPath(baseRelativePath, fileTimestamp),
                               <<"fallback", hash>>)

\* route.path with every placeholder replaced by its key.
_fallbackPathFromPattern(flag) == [NoPath EXCEPT !.base = <<flag, 0>>]

_toCriticalLogPath(relativePath) == [relativePath EXCEPT !.crit = TRUE]

PutFile(fs, path, file) ==
  [p \in DOMAIN fs \cup {path} |-> IF p = path THEN file ELSE fs[p]]

RemoveFile(fs, path) == [p \in DOMAIN fs \ {path} |-> fs[p]]

\* fs.promises.mkdir(dir, {recursive: true}): the error is rethrown.
_ensureDirExists(env) == env.mkdir

\* The catch block of _rotateLogFileIfNeeded on an error of stat or rename
\* for a file that was there: ENOENT is swallowed, any other error is recorded
\* and rethrown.
RotateError_Rethrown(code) == code

RotateError(code) == IF code = "ENOENT" THEN "none" ELSE code

\* Result: the file system after the call and the error thrown ("none": it
\* returned).  ENOENT from stat (no such file) is swallowed.  "vanish": a
\* concurrent writer renames the file between this call's stat and its
\* rename, which then fails with ENOENT.
_rotateLogFileIfNeeded(fs, filePath, env, t) ==
  LET rotated == PutFile(RemoveFile(fs, filePath),
                         _appendTimestampToPath(filePath, t), fs[filePath])
  IN IF env.at = "rotate" THEN [files |-> fs, err |-> RotateError(env.code)]
     ELSE IF filePath \notin DOMAIN fs THEN [files |-> fs, err |-> "none"]
     ELSE IF fs[filePath].size < MAX_LOG_FILE_SIZE_BYTES THEN [files |-> fs, err |-> "none"]
     ELSE IF env.at = "vanish" THEN [files |-> rotated, err |-> RotateError("ENOENT")]
     ELSE [files |-> rotated, err |-> "none"]

\* The wait of _writeFileWithRetry after a failed attempt, in ms: 50 * 2^attempt
\* when another attempt follows, none after the last.
BackoffAfter_Always(attempt, attempts) == <<50 * 2^attempt>>

BackoffAfter(attempt, attempts) ==
  IF attempt < attempts THEN <<50 * 2^attempt>> ELSE << >>

\* The loop of _writeFileWithRetry from attempt `attempt` on: rotate, then
\* fs.promises.writeFile, which replaces the file.  The result lists the
\* attempts made and the backoffs waited.
RECURSIVE WriteAttempt(_, _, _, _, _, _, _, _)
WriteAttempt(fs, filePath, file, envs, t, attempt, attempts, lastError) ==
  IF attempt > attempts
  THEN [files |-> fs, err |-> lastError, attempts |-> attempts, backoffs |-> << >>]
  ELSE LET rot == _rotateLogFileIfNeeded(fs, filePath, envs[attempt], t)
           failed(err) ==
             LET rest == WriteAttempt(rot.files, filePath, file, envs, t, attempt + 1,
                                      attempts, err)
             IN [rest EXCEPT !.backoffs = BackoffAfter(attempt, attempts) \o @]
       IN IF rot.err # "none" THEN failed(rot.err)
          ELSE IF envs[attempt].at = "write" THEN failed(envs[attempt].code)
          ELSE [files |-> PutFile(rot.files, filePath, file), err |-> "none",
                attempts |-> attempt, backoffs |-> << >>]

_writeFileWithRetry(fs, filePath, file, envs, t) ==
  WriteAttempt(fs, filePath, file, envs, t, 1, 2, "none")

\* await _ensureDirExists(dir); await _writeFileWithRetry(full, content)
MkdirAndWrite(fs, path, file, env, t) ==
  IF _ensureDirExists(env) # "none" THEN [files |-> fs, err |-> _ensureDirExists(env)]
  ELSE _writeFileWithRetry(fs, path, file, env.attempts, t)

_writeFallbackLogEntry(fs, path, file, env, t) == MkdirAndWrite(fs, path, file, env, t)

\* ------------------------------------------------------------ bounded caches
\* A cache is a JavaScript Map, kept as the sequence of its keys in insertion
\* order; the value stored under a key is a function of the key.
Range(seq) == {seq[i] : i \in DOMAIN seq}

CacheHas(cache, key) == key \in Range(cache)

\* Map.prototype.set: a key already present keeps its place.
CacheSet(cache, key) == IF CacheHas(cache, key) THEN cache ELSE Append(cache, key)

_trimCache_OffByOne(cache) ==
  IF Len(cache) > CACHE_SIZE_LIMIT + 1 THEN Tail(cache) ELSE cache

_trimCache_DropsNewest(cache) ==
  IF Len(cache) > CACHE_SIZE_LIMIT THEN SubSeq(cache, 1, CACHE_SIZE_LIMIT) ELSE cache

RECURSIVE _trimCache(_)
_trimCache(cache) ==
  IF Len(cache) > CACHE_SIZE_LIMIT THEN _trimCache(Tail(cache)) ELSE cache

\* The path cache after _resolvePathWithinRoot(rootPath, relativePath) returned
\* (relativePath accepted by ensureRelativeLogPath).
_resolvePathWithinRoot(cache, rootPath, safeRel) ==
  IF CacheHas(cache, <<rootPath, safeRel>>) THEN cache
  ELSE _trimCache(CacheSet(cache, <<rootPath, safeRel>>))

\* The template-resolution cache after _resolvePathPattern(template, data):
\* a resolution with missing placeholders is not cached.
_resolvePathPattern(cache, template, dataKey, missing) ==
  IF CacheHas(cache, <<template, dataKey>>) THEN cache
  ELSE IF missing THEN cache
  ELSE _trimCache(CacheSet(cache, <<template, dataKey>>))

\* _sanitizePathSegment(value) on a flag: SafeUtils.sanitizeString trims it,
\* the case of the letters stays.
_sanitizePathSegment(value) ==
  CASE value = "f1 " -> "f1"
    [] value = "X9 " -> "X9"
    [] value = " " -> ""
    [] OTHER -> value

RouteCacheKey_CaseSensitive(flag) ==
  CASE flag = "f1 " -> "f1"
    [] flag = "X9 " -> "X9"
    [] flag = " " -> ""
    [] OTHER -> flag

\* rawFlag.trim().toLowerCase(), the key of the route cache.
RouteCacheKey(flag) ==
  CASE flag \in {"f1 ", "F1"} -> "f1"
    [] flag = "X9 " -> "x9"
    [] flag = " " -> ""
    [] OTHER -> flag

\* The flags with a route in Logger.LOG_CONFIG, in lower case.
ConfiguredFlags == {"f1", "f2"}

\* One day in milliseconds.
MS_PER_DAY == 86400000

\* _safeFormatDate(DateTime.now(), DATE_FORMAT_DAY): the calendar day of t.
FormatDay(t) == t \div MS_PER_DAY

\* { ...meta, ...found }: the route of a configured flag.
FoundRoute(cacheKey) ==
  [category |-> "configured", critical |-> FALSE, path |-> <<"template", cacheKey>>]

\* The route synthesized for a flag without one.
FallbackRoute(flag, t) ==
  [category |-> "unknown", critical |-> FALSE,
   path |-> <<"missingLogRoutes",
              IF _sanitizePathSegment(flag) = "" THEN "missing_route"
              ELSE _sanitizePathSegment(flag),
              FormatDay(t)>>]

\* getRouteByFlag(flag) at time t: the route returned, whether it came from
\* the cache, and the cache afterwards.  walkThrows: walking LOG_CONFIG throws
\* before the flag is found; the catch block goes on to the synthesized route.
\* Found and synthesized routes are both stored.
RouteLookup(cache, flag, t, walkThrows) ==
  LET cacheKey == RouteCacheKey(flag)
      route == IF cacheKey \in ConfiguredFlags /\ ~walkThrows
               THEN FoundRoute(cacheKey)
               ELSE FallbackRoute(flag, t)
  IN IF \E i \in DOMAIN cache : cache[i].key = cacheKey
     THEN [route |-> cache[CHOOSE i \in DOMAIN cache : cache[i].key = cacheKey].route,
           hit |-> TRUE, cache |-> cache]
     ELSE [route |-> route, hit |-> FALSE,
           cache |-> Append(cache, [key |-> cacheKey, route |-> route])]

\* The route cache after getRouteByFlag(flag) with a routing table that can
\* be walked.
getRouteByFlag(cache, flag, t) == RouteLookup(cache, flag, t, FALSE).cache

\* route.path of the route getRouteByFlag(flag) returns: the template is named
\* by the key of its route.
RoutePath(flag) == RouteCacheKey(flag)


\* ------------------------------------------------------------------ entries
NoLog == [flag |-> "", key |-> 0, complete |-> FALSE, critical |-> FALSE, size |-> 0,
          fileTimestamp |-> 0]

\* The arguments of writeLog that decide its course: the flag, the data the
\* path template reads and whether it supplies every placeholder, the
\* resolved criticality and the size of the serialized entry.
\* A log whose path cannot be resolved is never looked at for criticality or
\* size; it is listed once.
Logs ==
  {log \in [flag : Flags, key : 1..MaxKey, complete : BOOLEAN, critical : BOOLEAN,
            size : EntrySizes] :
     ~log.complete => (~log.critical /\ log.size = EntryBytes /\ log.key = 1)}

\* The entry writeLog / writeLogs builds from a log at time t.
EntryOf(log, t) ==
  [flag |-> log.flag, key |-> log.key, complete |-> log.complete,
   critical |-> log.critical, size |-> log.size, fileTimestamp |-> t]

\* Entry ids are handed out in order.
NextId == Cardinality({e \in Entries : entry[e] # NoLog}) + 1

\* ------------------------------------------------- notification circuit breaker
_canSendSlack_NoGate == TRUE

_canSendSlack_AfterDeadline == now > _SLACK_COOLDOWN_UNTIL

_canSendSlack == now >= _SLACK_COOLDOWN_UNTIL

_recordSlackSuccess_ClosesBreaker ==
  /\ _SLACK_FAILURE_COUNT' = 0
  /\ _SLACK_COOLDOWN_UNTIL' = 0

_recordSlackSuccess ==
  /\ _SLACK_FAILURE_COUNT' = 0
  /\ UNCHANGED _SLACK_COOLDOWN_UNTIL

_recordSlackFailure_Late ==
  IF _SLACK_FAILURE_COUNT + 1 > SLACK_FAILURE_THRESHOLD
  THEN /\ _SLACK_FAILURE_COUNT' = 0
       /\ _SLACK_COOLDOWN_UNTIL' = now + SLACK_FAILURE_COOLDOWN_MS
  ELSE /\ _SLACK_FAILURE_COUNT' = _SLACK_FAILURE_COUNT + 1
       /\ UNCHANGED _SLACK_COOLDOWN_UNTIL

_recordSlackFailure_KeepsCount ==
  /\ _SLACK_FAILURE_COUNT' = _SLACK_FAILURE_COUNT + 1
  /\ _SLACK_COOLDOWN_UNTIL' = IF _SLACK_FAILURE_COUNT + 1 >= SLACK_FAILURE_THRESHOLD
                              THEN now + SLACK_FAILURE_COOLDOWN_MS
                              ELSE _SLACK_COOLDOWN_UNTIL

_recordSlackFailure ==
  IF _SLACK_FAILURE_COUNT + 1 >= SLACK_FAILURE_THRESHOLD
  THEN /\ _SLACK_FAILURE_COUNT' = 0
       /\ _SLACK_COOLDOWN_UNTIL' = now + SLACK_FAILURE_COOLDOWN_MS
  ELSE /\ _SLACK_FAILURE_COUNT' = _SLACK_FAILURE_COUNT + 1
       /\ UNCHANGED _SLACK_COOLDOWN_UNTIL

_scheduleSlackRetry_CapOff(e) ==
  IF slackRetryAttempts[e] > _SLACK_RETRY_LIMIT
  THEN UNCHANGED <<slackRetryAttempts, slackTimers>>
  ELSE /\ slackRetryAttempts' = [slackRetryAttempts EXCEPT ![e] = @ + 1]
       /\ slackTimers' = slackTimers \cup {[entry |-> e, due |-> now + SLACK_FALLBACK_COOLDOWN_MS]}

\* The timers and the retry counter after _scheduleSlackRetry(entry).
_scheduleSlackRetry(e) ==
  IF slackRetryAttempts[e] >= _SLACK_RETRY_LIMIT
  THEN UNCHANGED <<slackRetryAttempts, slackTimers>>
  ELSE /\ slackRetryAttempts' = [slackRetryAttempts EXCEPT ![e] = @ + 1]
       /\ slackTimers' = slackTimers \cup {[entry |-> e, due |-> now + SLACK_FALLBACK_COOLDOWN_MS]}

\* sendToSlackCritical(entry) from its call to its first await: the cooldown
\* gate, then Slack.critical is invoked.
sendToSlackCritical(e) ==
  IF ~_canSendSlack
  THEN /\ slackPc' = [slackPc EXCEPT ![e] = "skipped"]
       /\ UNCHANGED slackCalls
  ELSE /\ slackPc' = [slackPc EXCEPT ![e] = "sending"]
       /\ slackCalls' = [slackCalls EXCEPT ![e] = @ + 1]

\* The pcs at which a sendToSlackCritical call has returned or thrown.
SlackSettled == {"skipped", "sent", "suppressed", "fellback", "threw"}

\* Breaker scenario: a critical entry, persisted by writeLog, is handed to
\* sendToSlackCritical.
OfferCritical(e) ==
  /\ e <= MaxOffered
  /\ e = NextId
  /\ entry' = [entry EXCEPT ![e] =
       EntryOf([flag |-> "f1", key |-> 1, complete |-> TRUE, critical |-> TRUE,
                size |-> EntryBytes], now)]
  /\ lastStep' = [op |-> "OfferCritical", e |-> e]
  /\ sendToSlackCritical(e)
  /\ UNCHANGED <<now, breakerVars, slackRetryAttempts, slackTimers, slackFallbacks,
                 slackFallbackPath, files, cacheVars, envVars, callVars>>

\* The setTimeout callback of _scheduleSlackRetry runs.
SlackRetryFires(t) ==
  /\ t \in slackTimers
  /\ now >= t.due
  /\ lastStep' = [op |-> "SlackRetryFires", e |-> t.entry]
  /\ slackTimers' = slackTimers \ {t}
  /\ sendToSlackCritical(t.entry)
  /\ UNCHANGED <<now, breakerVars, entry, slackRetryAttempts, slackFallbacks,
                 slackFallbackPath, files, cacheVars, envVars, callVars>>

\* await Slack.critical(...) resolves.
SlackSucceeds(e) ==
  /\ slackPc[e] = "sending"
  /\ lastStep' = [op |-> "SlackSucceeds", e |-> e]
  /\ _recordSlackSuccess
  /\ slackPc' = [slackPc EXCEPT ![e] = "sent"]
  /\ UNCHANGED <<now, _SLACK_FALLBACK_COOLDOWN_UNTIL, entry, slackRetryAttempts,
                 slackTimers, slackCalls, slackFallbacks, slackFallbackPath, files,
                 cacheVars, envVars, callVars>>

\* The Slack-fallback file of entry e, named at time t with random suffix hash.
SlackFallbackRelative(e, t, hash) ==
  _buildFallbackRelativePath(_fallbackPathFromPattern(RoutePath(entry[e].flag)), t, hash)

SlackFallbackSuppressed_Inclusive == now <= _SLACK_FALLBACK_COOLDOWN_UNTIL

\* Date.now() < Logger._SLACK_FALLBACK_COOLDOWN_UNTIL in the catch block.
SlackFallbackSuppressed == now < _SLACK_FALLBACK_COOLDOWN_UNTIL

\* await Slack.critical(...) rejects (transport failure or timeout abort): the
\* catch block up to its await inside _writeFallbackLogEntry.
SlackFails(e, hash) ==
  /\ slackPc[e] = "sending"
  /\ lastStep' = [op |-> "SlackFails", e |-> e]
  /\ _recordSlackFailure
  /\ IF SlackFallbackSuppressed
     THEN /\ slackPc' = [slackPc EXCEPT ![e] = "suppressed"]
          /\ UNCHANGED <<slackFallbackPath, cacheVars>>
     ELSE /\ slackPc' = [slackPc EXCEPT ![e] = "fallback"]
          /\ slackFallbackPath' = [slackFallbackPath EXCEPT ![e] =
               [SlackFallbackRelative(e, now, hash) EXCEPT !.root = FALLBACK_SLACK_DIR]]
          /\ _ROUTE_CACHE' = getRouteByFlag(_ROUTE_CACHE, entry[e].flag, now)
          /\ _PATH_CACHE' = _resolvePathWithinRoot(_PATH_CACHE, FALLBACK_SLACK_DIR,
                                                   SlackFallbackRelative(e, now, hash))
          /\ pathKeysSeen' = pathKeysSeen \cup
               {<<FALLBACK_SLACK_DIR, SlackFallbackRelative(e, now, hash)>>}
          /\ UNCHANGED <<_RESOLVE_CACHE, resolveKeysSeen>>
  /\ UNCHANGED <<now, _SLACK_FALLBACK_COOLDOWN_UNTIL, entry, slackRetryAttempts,
                 slackTimers, slackCalls, slackFallbacks, files, envVars,
                 callVars>>

\* await _writeFallbackLogEntry(FALLBACK_SLACK_DIR, ...) settles: on success
\* the retry is scheduled and the suppression window opened; on failure the
\* error leaves sendToSlackCritical.
SlackFallbackSettles(e, env) ==
  /\ slackPc[e] = "fallback"
  /\ lastStep' = [op |-> "SlackFallbackSettles", e |-> e]
  /\ LET r == _writeFallbackLogEntry(files, slackFallbackPath[e],
                 [content |-> Content("slack", e, NoPath, "E_SLACK_FAIL", 0),
                  size |-> entry[e].size], env, now)
     IN /\ files' = r.files
        /\ IF r.err = "none"
           THEN /\ slackFallbacks' = [slackFallbacks EXCEPT ![e] = @ + 1]
                /\ _scheduleSlackRetry(e)
                /\ _SLACK_FALLBACK_COOLDOWN_UNTIL' = now + SLACK_FALLBACK_COOLDOWN_MS
                /\ slackPc' = [slackPc EXCEPT ![e] = "fellback"]
           ELSE /\ slackPc' = [slackPc EXCEPT ![e] = "threw"]
                /\ UNCHANGED <<slackFallbacks, slackRetryAttempts, slackTimers,
                               _SLACK_FALLBACK_COOLDOWN_UNTIL>>
  /\ slackFallbackPath' = [slackFallbackPath EXCEPT ![e] = NoPath]
  /\ UNCHANGED <<now, _SLACK_FAILURE_COUNT, _SLACK_COOLDOWN_UNTIL, entry, slackCalls,
                 cacheVars, envVars, callVars>>

\* Time passes.
Tick ==
  /\ now + TickMs <= MaxNow
  /\ now' = now + TickMs
  /\ lastStep' = [op |-> "Tick", e |-> 0]
  /\ UNCHANGED <<breakerVars, entry, slackVars, files, cacheVars, envVars,
                 callVars>>

\* ------------------------------------------------------ durable write pipeline
\* One storage promise: a pending call of writeToStorage, writeCriticalLogFile,
\* writeLogBatchFile or _writeFallbackLogEntry.  status is "primary" (awaiting
\* the write under its root), "fallback" (awaiting the write of the
\* write-error record), "fulfilled" or "rejected".
Task(kind, e, root, safeRel, fbRoot, errorCode, entryCount) ==
  [kind |-> kind, e |-> e, safeRel |-> safeRel, full |-> [safeRel EXCEPT !.root = root],
   fbRoot |-> fbRoot, errorCode |-> errorCode, entryCount |-> entryCount,
   status |-> "primary", primaryErr |-> "none", fallbackErr |-> "none", fbWrites |-> 0]

\* writeToStorage(relativePath, payload) up to its first await.
writeToStorage(e, relativePath) ==
  Task("storage", e, LOG_ROOT, relativePath, WRITE_ERRORS_ROOT, "E_WRITE_FAIL", 0)

\* writeCriticalLogFile(relativePath, payload, fileTimestamp) up to its first
\* await: under a critical root nested in the log root it is writeToStorage.
writeCriticalLogFile(e, relativePath, fileTimestamp) ==
  LET safeRel == _appendTimestampToPath(_toCriticalLogPath(relativePath), fileTimestamp)
  IN IF criticalWithinRoot
     THEN [writeToStorage(e, [safeRel EXCEPT !.sub = CRITICAL_ROOT]) EXCEPT !.kind = "critical"]
     ELSE Task("critical", e, CRITICAL_ROOT, safeRel, CRITICAL_WRITE_ERRORS_ROOT,
               "E_WRITE_FAIL_CRITICAL", 0)

\* writeLogBatchFile(relativePath, entries) up to its first await.
writeLogBatchFile(relativePath, entryCount) ==
  Task("batch", 0, LOG_ROOT, relativePath, BATCH_WRITE_ERRORS_ROOT, "E_BATCH_WRITE_FAIL",
       entryCount)

\* _writeFallbackLogEntry(FALLBACK_MISSING_PATH_DIR, ...) up to its first await.
MissingTask(e, fallbackRelative) ==
  Task("missing", e, FALLBACK_MISSING_PATH_DIR, fallbackRelative, "", "", 0)

\* What the primary write of a task puts into its file.
TaskFile(t) ==
  IF t.kind = "batch"
  THEN [content |-> Content("batch", 0, NoPath, "", t.entryCount), size |-> EntryBytes]
  ELSE [content |-> Content(IF t.kind = "missing" THEN "missing" ELSE "entry", t.e, NoPath,
                            "", 0),
        size |-> entry[t.e].size]

\* The write-error record of a task: time stamp, error, attempted path, error
\* code and (batch) entry count; the entry itself is not in it.
FallbackFile(t) ==
  [content |-> Content("write_error", 0, t.full, t.errorCode, t.entryCount),
   size |-> EntryBytes]

FallbackPath_PrimaryRoot(t, timestamp) ==
  _appendTimestampToPath([t.safeRel EXCEPT !.root = t.full.root], timestamp)

FallbackPath(t, timestamp) ==
  _appendTimestampToPath([t.safeRel EXCEPT !.root = t.fbRoot], timestamp)

\* The task after its primary mkdir and write ended with err: the catch
\* block of writeToStorage / writeCriticalLogFile / writeLogBatchFile up to
\* its await; _writeFallbackLogEntry has no catch.
PrimarySettled(t, err) ==
  IF err = "none" THEN [t EXCEPT !.status = "fulfilled"]
  ELSE IF t.kind = "missing" THEN [t EXCEPT !.status = "rejected", !.primaryErr = err]
  ELSE IF _isPermissionError(err) THEN [t EXCEPT !.status = "fulfilled", !.primaryErr = err]
  ELSE [t EXCEPT !.status = "fallback", !.primaryErr = err]

\* The task after its fallback mkdir and write ended with err: the inner catch
\* returns on a permission error and falls through on any other.
FallbackSettled(t, err) ==
  IF err = "none" THEN [t EXCEPT !.status = "fulfilled", !.fbWrites = @ + 1]
  ELSE IF _isPermissionError(err) THEN [t EXCEPT !.status = "fulfilled", !.fallbackErr = err]
  ELSE [t EXCEPT !.status = "fulfilled", !.fallbackErr = err]

RECURSIVE ResolveAll(_, _)
ResolveAll(cache, ts) ==
  IF ts = <<>> THEN cache
  ELSE ResolveAll(_resolvePathWithinRoot(cache, Head(ts).full.root, Head(ts).safeRel),
                  Tail(ts))

PathKeysOf(ts) == {<<ts[i].full.root, ts[i].safeRel>> : i \in DOMAIN ts}

Settled(t) == t.status \in {"fulfilled", "rejected"}

AllSettled_FailFast(ts) ==
  \/ \A i \in DOMAIN ts : ts[i].status = "fulfilled"
  \/ \E i \in DOMAIN ts : ts[i].status = "rejected"

\* Promise.allSettled(storagePromises) has resolved.
AllSettled(ts) == \A i \in DOMAIN ts : Settled(ts[i])

\* The primary mkdir and write of task i settle.
TaskPrimarySettles(i, env) ==
  /\ i \in DOMAIN tasks
  /\ tasks[i].status = "primary"
  /\ lastStep' = [op |-> "TaskPrimarySettles", e |-> i]
  /\ LET r == MkdirAndWrite(files, tasks[i].full, TaskFile(tasks[i]), env, now)
     IN /\ files' = r.files
        /\ tasks' = [tasks EXCEPT ![i] = PrimarySettled(tasks[i], r.err)]
  /\ UNCHANGED <<now, breakerVars, entry, slackVars, cacheVars, envVars,
                 callApi, callPc, callError, callEntries, calls, slackEntries>>

\* The fallback mkdir and write of task i settle.
TaskFallbackSettles(i, env) ==
  /\ i \in DOMAIN tasks
  /\ tasks[i].status = "fallback"
  /\ lastStep' = [op |-> "TaskFallbackSettles", e |-> i]
  /\ LET r == MkdirAndWrite(files, FallbackPath(tasks[i], now), FallbackFile(tasks[i]),
                            env, now)
     IN /\ files' = r.files
        /\ tasks' = [tasks EXCEPT ![i] = FallbackSettled(tasks[i], r.err)]
  /\ UNCHANGED <<now, breakerVars, entry, slackVars, cacheVars, envVars,
                 callApi, callPc, callError, callEntries, calls, slackEntries>>

CanCall == callPc \in {"idle", "returned", "threw"} /\ calls < MaxCalls

\* The template of the flag's route expanded with the log's data.
ResolvedPath(log) == [NoPath EXCEPT !.base = <<RoutePath(log.flag), log.key>>]

\* writeLog(...) up to its first await.  valid: the arguments pass the
\* checks of flag, data and action.
StartWriteLog(log, valid, hash) ==
  /\ CanCall
  /\ LOGGING_ENABLED
  /\ valid => NextId <= MaxEntries
  /\ lastStep' = [op |-> "StartWriteLog", e |-> IF valid THEN NextId ELSE 0]
  /\ callApi' = "writeLog"
  /\ calls' = calls + 1
  /\ slackEntries' = <<>>
  /\ IF ~valid
     THEN /\ callPc' = "threw"
          /\ callError' = "caller"
          /\ callEntries' = <<>>
          /\ tasks' = <<>>
          /\ UNCHANGED <<entry, cacheVars>>
     ELSE LET e == NextId
              t == IF log.complete
                   THEN writeToStorage(e, _appendTimestampToPath(ResolvedPath(log), now))
                   ELSE MissingTask(e, _buildFallbackRelativePath(
                                         _fallbackPathFromPattern(RoutePath(log.flag)),
                                         now, hash))
          IN /\ entry' = [entry EXCEPT ![e] = EntryOf(log, now)]
             /\ callPc' = IF log.complete THEN "awaitStorage" ELSE "awaitMissing"
             /\ callError' = "none"
             /\ callEntries' = <<e>>
             /\ tasks' = <<t>>
             /\ _ROUTE_CACHE' = getRouteByFlag(_ROUTE_CACHE, log.flag, now)
             /\ _RESOLVE_CACHE' = _resolvePathPattern(_RESOLVE_CACHE, RoutePath(log.flag),
                                     IF log.complete THEN log.key ELSE 0, ~log.complete)
             /\ resolveKeysSeen' = IF log.complete
                                   THEN resolveKeysSeen \cup {<<RoutePath(log.flag), log.key>>}
                                   ELSE resolveKeysSeen
             /\ _PATH_CACHE' = ResolveAll(_PATH_CACHE, <<t>>)
             /\ pathKeysSeen' = pathKeysSeen \cup PathKeysOf(<<t>>)
  /\ UNCHANGED <<now, breakerVars, slackVars, files, envVars>>

\* writeLog after await writeToStorage(...): a critical entry goes on to
\* writeCriticalLogFile.
WriteLogAfterStorage ==
  /\ callApi = "writeLog"
  /\ callPc = "awaitStorage"
  /\ Settled(tasks[1])
  /\ lastStep' = [op |-> "WriteLogAfterStorage", e |-> callEntries[1]]
  /\ LET e == callEntries[1]
         t == writeCriticalLogFile(e, ResolvedPath(entry[e]), entry[e].fileTimestamp)
     IN IF tasks[1].status = "rejected"
        THEN /\ callPc' = "threw"
             /\ callError' = "io"
             /\ UNCHANGED <<tasks, cacheVars>>
        ELSE IF entry[e].critical
        THEN /\ callPc' = "awaitCritical"
             /\ tasks' = Append(tasks, t)
             /\ _PATH_CACHE' = ResolveAll(_PATH_CACHE, <<t>>)
             /\ pathKeysSeen' = pathKeysSeen \cup PathKeysOf(<<t>>)
             /\ UNCHANGED <<callError, _RESOLVE_CACHE, _ROUTE_CACHE, resolveKeysSeen>>
        ELSE /\ callPc' = "returned"
             /\ UNCHANGED <<callError, tasks, cacheVars>>
  /\ UNCHANGED <<now, breakerVars, entry, slackVars, files, envVars,
                 callApi, callEntries, calls, slackEntries>>

\* writeLog after await writeCriticalLogFile(...): sendToSlackCritical(entry).
WriteLogAfterCritical ==
  /\ callApi = "writeLog"
  /\ callPc = "awaitCritical"
  /\ Settled(tasks[2])
  /\ lastStep' = [op |-> "WriteLogAfterCritical", e |-> callEntries[1]]
  /\ IF tasks[2].status = "rejected"
     THEN /\ callPc' = "threw"
          /\ callError' = "io"
          /\ UNCHANGED <<slackEntries, slackPc, slackCalls>>
     ELSE /\ callPc' = "awaitSlack"
          /\ slackEntries' = <<callEntries[1]>>
          /\ sendToSlackCritical(callEntries[1])
          /\ UNCHANGED callError
  /\ UNCHANGED <<now, breakerVars, entry, slackRetryAttempts, slackTimers, slackFallbacks,
                 slackFallbackPath, files, cacheVars, envVars, callApi,
                 callEntries, calls, tasks>>

\* writeLog after await _writeFallbackLogEntry(FALLBACK_MISSING_PATH_DIR, ...).
WriteLogAfterMissing ==
  /\ callApi = "writeLog"
  /\ callPc = "awaitMissing"
  /\ Settled(tasks[1])
  /\ lastStep' = [op |-> "WriteLogAfterMissing", e |-> callEntries[1]]
  /\ callPc' = IF tasks[1].status = "rejected" THEN "threw" ELSE "returned"
  /\ callError' = IF tasks[1].status = "rejected" THEN "io" ELSE callError
  /\ UNCHANGED <<now, breakerVars, entry, slackVars, files, cacheVars, envVars,
                 callApi, callEntries, calls, tasks, slackEntries>>

\* writeLog / writeLogs after await sendToSlackCritical(entry): an error
\* leaves the call; writeLogs goes on to its next critical entry.
AfterSlack ==
  /\ callPc = "awaitSlack"
  /\ slackPc[Head(slackEntries)] \in SlackSettled
  /\ lastStep' = [op |-> "AfterSlack", e |-> Head(slackEntries)]
  /\ IF slackPc[Head(slackEntries)] = "threw"
     THEN /\ callPc' = "threw"
          /\ callError' = "io"
          /\ UNCHANGED <<slackEntries, slackPc, slackCalls>>
     ELSE IF Tail(slackEntries) = <<>>
     THEN /\ callPc' = "returned"
          /\ slackEntries' = <<>>
          /\ UNCHANGED <<callError, slackPc, slackCalls>>
     ELSE /\ slackEntries' = Tail(slackEntries)
          /\ sendToSlackCritical(Head(Tail(slackEntries)))
          /\ UNCHANGED <<callPc, callError>>
  /\ UNCHANGED <<now, breakerVars, entry, slackRetryAttempts, slackTimers, slackFallbacks,
                 slackFallbackPath, files, cacheVars, envVars, callApi,
                 callEntries, calls, tasks>>

\* writeLogBatchFile(relativePath, entries) up to its first await; the batch
\* file is named by the caller.
StartWriteLogBatchFile(name, entryCount) ==
  /\ CanCall
  /\ lastStep' = [op |-> "StartWriteLogBatchFile", e |-> 0]
  /\ callApi' = "writeLogBatchFile"
  /\ calls' = calls + 1
  /\ callPc' = "awaitStorage"
  /\ callError' = "none"
  /\ callEntries' = <<>>
  /\ slackEntries' = <<>>
  /\ LET t == writeLogBatchFile([NoPath EXCEPT !.base = <<name, 0>>], entryCount)
     IN /\ tasks' = <<t>>
        /\ _PATH_CACHE' = ResolveAll(_PATH_CACHE, <<t>>)
        /\ pathKeysSeen' = pathKeysSeen \cup PathKeysOf(<<t>>)
  /\ UNCHANGED <<now, breakerVars, entry, slackVars, files, _RESOLVE_CACHE, _ROUTE_CACHE,
                 resolveKeysSeen, envVars>>

\* writeLogBatchFile returns once its write, or the write of its write-error
\* record, has settled.
BatchFileReturns ==
  /\ callApi = "writeLogBatchFile"
  /\ callPc = "awaitStorage"
  /\ Settled(tasks[1])
  /\ lastStep' = [op |-> "BatchFileReturns", e |-> 0]
  /\ callPc' = IF tasks[1].status = "rejected" THEN "threw" ELSE "returned"
  /\ callError' = IF tasks[1].status = "rejected" THEN "io" ELSE callError
  /\ UNCHANGED <<now, breakerVars, entry, slackVars, files, cacheVars, envVars,
                 callApi, callEntries, calls, tasks, slackEntries>>

\* Payload sizes of direct writeToStorage calls: an ordinary entry, a payload
\* of exactly the rotation threshold and one byte more.
RotateSizes == {EntryBytes, MAX_LOG_FILE_SIZE_BYTES, MAX_LOG_FILE_SIZE_BYTES + 1}

\* writeToStorage(relativePath, payload) called directly, with the same
\* relative path every time, up to its first await.
StartWriteToStorage(size) ==
  /\ callPc \in {"idle", "returned", "threw"}
  /\ NextId <= MaxRotateWrites
  /\ lastStep' = [op |-> "StartWriteToStorage", e |-> NextId]
  /\ callApi' = "writeToStorage"
  /\ calls' = calls + 1
  /\ callPc' = "awaitStorage"
  /\ callError' = "none"
  /\ callEntries' = <<NextId>>
  /\ slackEntries' = <<>>
  /\ LET log == [flag |-> "f1", key |-> 1, complete |-> TRUE, critical |-> FALSE,
                 size |-> size]
         t == writeToStorage(NextId, ResolvedPath(log))
     IN /\ entry' = [entry EXCEPT ![NextId] = EntryOf(log, now)]
        /\ tasks' = <<t>>
        /\ _PATH_CACHE' = ResolveAll(_PATH_CACHE, <<t>>)
        /\ pathKeysSeen' = pathKeysSeen \cup PathKeysOf(<<t>>)
  /\ UNCHANGED <<now, breakerVars, slackVars, files, _RESOLVE_CACHE, _ROUTE_CACHE,
                 resolveKeysSeen, envVars>>

\* writeToStorage returns once its write, or the write of its write-error
\* record, has settled.
WriteToStorageReturns ==
  /\ callApi = "writeToStorage"
  /\ callPc = "awaitStorage"
  /\ Settled(tasks[1])
  /\ lastStep' = [op |-> "WriteToStorageReturns", e |-> callEntries[1]]
  /\ callPc' = IF tasks[1].status = "rejected" THEN "threw" ELSE "returned"
  /\ callError' = IF tasks[1].status = "rejected" THEN "io" ELSE callError
  /\ UNCHANGED <<now, breakerVars, entry, slackVars, files, cacheVars, envVars,
                 callApi, callEntries, calls, tasks, slackEntries>>

\* The environments of a direct _writeFileWithRetry call: those of a write,
\* and a concurrent writer rotating the file under the first attempt.
RetryEnvs ==
  {env.attempts : env \in {w \in WriteEnvs : w.mkdir = "none"}}
    \cup {[a \in 1..2 |-> IF a = 1 THEN [at |-> "vanish", code |-> "ENOENT"]
                                  ELSE [at |-> "none", code |-> "none"]]}

\* The one file the direct calls write.
RetryPath == [NoPath EXCEPT !.root = LOG_ROOT, !.base = <<"f1", 1>>]

\* _writeFileWithRetry(filePath, content) called directly, from its call to
\* its return or throw.
WriteFileCall(size, envs) ==
  LET file == [content |-> Content("entry", calls + 1, NoPath, "none", 0), size |-> size]
      r == _writeFileWithRetry(files, RetryPath, file, envs, now)
  IN /\ callPc \in {"idle", "returned", "threw"}
     /\ calls < MaxRotateWrites
     /\ lastStep' = [op |-> "WriteFileCall", e |-> calls + 1, envs |-> envs,
                     file |-> file, attempts |-> r.attempts, backoffs |-> r.backoffs,
                     err |-> r.err]
     /\ files' = r.files
     /\ callApi' = "_writeFileWithRetry"
     /\ calls' = calls + 1
     /\ callPc' = IF r.err = "none" THEN "returned" ELSE "threw"
     /\ callError' = IF r.err = "none" THEN "none" ELSE "io"
     /\ UNCHANGED <<now, breakerVars, entry, slackVars, cacheVars, envVars,
                    callEntries, tasks, slackEntries>>

\* ------------------------------------------------------------ path validation
\* A relative path as a caller writes it: a leading separator or not, and
\* its segments.
Segments == {"a", ".", "..", "..."}

RawPaths ==
  [absolute : BOOLEAN, segs : UNION {[1..n -> Segments] : n \in 0..MaxSegments}]

\* path.normalize on the segments: "." is dropped, ".." removes the segment
\* before it, is dropped at the root of an absolute path and is kept at the
\* front of a relative one.
RECURSIVE NormalizeSegments(_, _, _)
NormalizeSegments(segs, acc, absolute) ==
  IF segs = <<>> THEN acc
  ELSE LET s == Head(segs)
           next == IF s = "." THEN acc
                   ELSE IF s # ".." THEN Append(acc, s)
                   ELSE IF acc # <<>> /\ acc[Len(acc)] # ".."
                        THEN SubSeq(acc, 1, Len(acc) - 1)
                   ELSE IF absolute THEN acc
                   ELSE Append(acc, s)
       IN NormalizeSegments(Tail(segs), next, absolute)

\* path.normalize(candidate): a relative path that normalizes to nothing is ".".
PathNormalize(raw) ==
  LET segs == NormalizeSegments(raw.segs, <<>>, raw.absolute)
  IN [absolute |-> raw.absolute,
      segs |-> IF segs = <<>> /\ ~raw.absolute THEN <<".">> ELSE segs]

\* /^\.+$/.test(segment)
DotOnly(segment) == segment \in {".", "..", "..."}

\* ensureRelativeLogPath(relPath): the error thrown ("none": it returned) and
\* the segments of the path returned.
ensureRelativeLogPath(raw) ==
  LET normalized == PathNormalize(raw)
  IN IF raw.segs = <<>> /\ ~raw.absolute
     THEN [err |-> "Log path cannot be empty", segs |-> <<>>]
     ELSE IF normalized.absolute
     THEN [err |-> "Absolute paths are not allowed", segs |-> <<>>]
     ELSE IF \E i \in DOMAIN normalized.segs : normalized.segs[i] = ".."
     THEN [err |-> "Parent traversal not allowed", segs |-> <<>>]
     ELSE IF \E i \in DOMAIN normalized.segs : DotOnly(normalized.segs[i])
     THEN [err |-> "Dot-only path segments are not allowed", segs |-> <<>>]
     ELSE [err |-> "none", segs |-> normalized.segs]

\* writeToStorage(relativePath, payload) called directly with any path, up to
\* its first await: _resolvePathWithinRoot throws what ensureRelativeLogPath
\* throws, before anything touches the file system.
StartWriteToStoragePath(raw) ==
  /\ CanCall
  /\ NextId <= MaxEntries
  /\ lastStep' = [op |-> "StartWriteToStoragePath", e |-> NextId, relativePath |-> raw]
  /\ callApi' = "writeToStorage"
  /\ calls' = calls + 1
  /\ slackEntries' = <<>>
  /\ IF ensureRelativeLogPath(raw).err # "none"
     THEN /\ callPc' = "threw"
          /\ callError' = "caller"
          /\ callEntries' = <<>>
          /\ tasks' = <<>>
          /\ UNCHANGED <<entry, _PATH_CACHE, pathKeysSeen>>
     ELSE LET log == [flag |-> "f1", key |-> 1, complete |-> TRUE, critical |-> FALSE,
                      size |-> EntryBytes]
              t == writeToStorage(NextId,
                     [NoPath EXCEPT !.base = ensureRelativeLogPath(raw).segs])
          IN /\ callPc' = "awaitStorage"
             /\ callError' = "none"
             /\ callEntries' = <<NextId>>
             /\ entry' = [entry EXCEPT ![NextId] = EntryOf(log, now)]
             /\ tasks' = <<t>>
             /\ _PATH_CACHE' = ResolveAll(_PATH_CACHE, <<t>>)
             /\ pathKeysSeen' = pathKeysSeen \cup PathKeysOf(<<t>>)
  /\ UNCHANGED <<now, breakerVars, slackVars, files, _RESOLVE_CACHE, _ROUTE_CACHE,
                 resolveKeysSeen, envVars>>

\* _describeMissingPlaceholders(missing): every route template here has the
\* one placeholder {key}.
_describeMissingPlaceholders == "key"

\* The for-loop of writeLogs from its k-th log on; the k-th log becomes entry
\* firstId + k - 1.  acc carries storagePromises (tasks), slackEntries,
\* fallbackKeys and the route and template caches.
FallbackKey_RawFlag(log) == <<log.flag, _describeMissingPlaceholders>>

\* `missing:${sanitizedFlag}:${fallbackSuffix}`
FallbackKey(log) == <<_sanitizePathSegment(log.flag), _describeMissingPlaceholders>>

RECURSIVE WriteLogsLoop(_, _, _, _, _)
WriteLogsLoop(logs, k, firstId, t, acc) ==
  IF k > Len(logs) THEN acc
  ELSE
    LET log == logs[k]
        e == firstId + k - 1
        route == getRouteByFlag(acc.route, log.flag, t)
        resolve == _resolvePathPattern(acc.resolve, RoutePath(log.flag),
                                       IF log.complete THEN log.key ELSE 0, ~log.complete)
        fallbackKey == FallbackKey(log)
        fallbackRelative ==
          _buildFallbackRelativePath(_fallbackPathFromPattern(RoutePath(log.flag)), t,
                                     acc.hash)
        primary == writeToStorage(e, _appendTimestampToPath(ResolvedPath(log), t))
        critical == writeCriticalLogFile(e, ResolvedPath(log), t)
        next ==
          IF ~log.complete
          THEN IF fallbackKey \in acc.fallbackKeys
               THEN [acc EXCEPT !.route = route, !.resolve = resolve]
               ELSE [acc EXCEPT !.route = route, !.resolve = resolve,
                                !.fallbackKeys = @ \cup {fallbackKey},
                                !.tasks = Append(@, MissingTask(e, fallbackRelative))]
          ELSE IF log.critical
          THEN [acc EXCEPT !.route = route, !.resolve = resolve,
                           !.tasks = @ \o <<primary, critical>>,
                           !.slackEntries = Append(@, e)]
          ELSE [acc EXCEPT !.route = route, !.resolve = resolve,
                           !.tasks = Append(@, primary)]
    IN WriteLogsLoop(logs, k + 1, firstId, t, next)

\* writeLogs(logs) up to await Promise.allSettled(storagePromises).  valid:
\* logs is an array whose elements pass the checks of flag and data.
StartWriteLogs(logs, valid, hash) ==
  /\ CanCall
  /\ LOGGING_ENABLED
  /\ valid => NextId + Len(logs) - 1 <= MaxEntries
  /\ lastStep' = [op |-> "StartWriteLogs", e |-> IF valid THEN NextId ELSE 0]
  /\ callApi' = "writeLogs"
  /\ calls' = calls + 1
  /\ IF ~valid
     THEN /\ callPc' = "threw"
          /\ callError' = "caller"
          /\ callEntries' = <<>>
          /\ tasks' = <<>>
          /\ slackEntries' = <<>>
          /\ UNCHANGED <<entry, cacheVars>>
     ELSE LET firstId == NextId
              acc == WriteLogsLoop(logs, 1, firstId, now,
                       [tasks |-> <<>>, slackEntries |-> <<>>, fallbackKeys |-> {},
                        route |-> _ROUTE_CACHE, resolve |-> _RESOLVE_CACHE, hash |-> hash])
          IN /\ entry' = [e \in Entries |->
                            IF e >= firstId /\ e < firstId + Len(logs)
                            THEN EntryOf(logs[e - firstId + 1], now) ELSE entry[e]]
             /\ callPc' = "awaitAll"
             /\ callError' = "none"
             /\ callEntries' = [k \in 1..Len(logs) |-> firstId + k - 1]
             /\ tasks' = acc.tasks
             /\ slackEntries' = acc.slackEntries
             /\ _ROUTE_CACHE' = acc.route
             /\ _RESOLVE_CACHE' = acc.resolve
             /\ resolveKeysSeen' = resolveKeysSeen \cup
                  {<<RoutePath(logs[k].flag), logs[k].key>> :
                     k \in {j \in 1..Len(logs) : logs[j].complete}}
             /\ _PATH_CACHE' = ResolveAll(_PATH_CACHE, acc.tasks)
             /\ pathKeysSeen' = pathKeysSeen \cup PathKeysOf(acc.tasks)
  /\ UNCHANGED <<now, breakerVars, slackVars, files, envVars>>

\* writeLogs after await Promise.allSettled(storagePromises): rejections are
\* discarded, then the critical entries are handed to sendToSlackCritical in
\* order.
WriteLogsAfterAll ==
  /\ callApi = "writeLogs"
  /\ callPc = "awaitAll"
  /\ AllSettled(tasks)
  /\ lastStep' = [op |-> "WriteLogsAfterAll", e |-> 0]
  /\ IF slackEntries = <<>>
     THEN /\ callPc' = "returned"
          /\ UNCHANGED <<slackPc, slackCalls>>
     ELSE /\ callPc' = "awaitSlack"
          /\ sendToSlackCritical(Head(slackEntries))
  /\ UNCHANGED <<now, breakerVars, entry, slackRetryAttempts, slackTimers, slackFallbacks,
                 slackFallbackPath, files, cacheVars, envVars, callApi,
                 callError, callEntries, calls, tasks, slackEntries>>

\* ------------------------------------------------- the public entry points
\* What a caller can pass to a public method: nothing, null, an object the
\* method's checks reject (writeLog: no usable flag; writeLogs: not an array)
\* and one they accept.
Arguments == {"undefined", "null", "invalid", "valid"}

PublicApis == {"writeLog", "writeLogs", "writeLogSafe", "writeLogsSafe"}

\* writeLog(payload) up to its checks: the parameter is destructured before
\* the body runs, which throws a TypeError for undefined and null; then
\* LOGGING_ENABLED is looked at, then flag and data.  proceeds: the call goes
\* on to build and write an entry.
writeLogEntry(enabled, arg) ==
  IF arg \in {"undefined", "null"}
  THEN [threw |-> TRUE, errors |-> 0, proceeds |-> FALSE]
  ELSE IF ~enabled
  THEN [threw |-> FALSE, errors |-> 0, proceeds |-> FALSE]
  ELSE IF arg = "invalid"
  THEN [threw |-> TRUE, errors |-> 1, proceeds |-> FALSE]
  ELSE [threw |-> FALSE, errors |-> 0, proceeds |-> TRUE]

\* writeLogs(logs) up to its checks: LOGGING_ENABLED first, then
\* Array.isArray(logs).
writeLogsEntry(enabled, arg) ==
  IF ~enabled
  THEN [threw |-> FALSE, errors |-> 0, proceeds |-> FALSE]
  ELSE IF arg # "valid"
  THEN [threw |-> TRUE, errors |-> 1, proceeds |-> FALSE]
  ELSE [threw |-> FALSE, errors |-> 0, proceeds |-> TRUE]

\* The payload of the second attempt of writeLogSafe: {...payload,
\* safeFailed: true} for an object, {safeFailed: true} otherwise.
SafeRetryPayload(arg) == IF arg \in {"undefined", "null"} THEN "invalid" ELSE arg

\* What a call of a public method comes to: the outcome r of the checks it
\* ended at, the errors recorded, the number of invocations of the
\* underlying method and the attempt whose result is handed back ("null":
\* the literal null, "none": the call threw).
Outcome(r, errors, attempts, result) ==
  [threw |-> r.threw, errors |-> errors, proceeds |-> r.proceeds,
   attempts |-> attempts, result |-> result]

SafeEntry_Rethrows(first, second) ==
  IF ~first.threw THEN Outcome(first, first.errors, 1, "first")
  ELSE IF ~second.threw
  THEN Outcome(second, first.errors + 1 + second.errors, 2, "second")
  ELSE [threw |-> TRUE, errors |-> first.errors + 1 + second.errors + 1,
        proceeds |-> FALSE, attempts |-> 2, result |-> "none"]

\* writeLogSafe / writeLogsSafe: up to two attempts, each failure recorded
\* with ErrorHandler.addError; null after the second failure.
SafeEntry(first, second) ==
  IF ~first.threw THEN Outcome(first, first.errors, 1, "first")
  ELSE IF ~second.threw
  THEN Outcome(second, first.errors + 1 + second.errors, 2, "second")
  ELSE [threw |-> FALSE, errors |-> first.errors + 1 + second.errors + 1,
        proceeds |-> FALSE, attempts |-> 2, result |-> "null"]

\* A direct call of writeLog or writeLogs.
DirectEntry(r) == Outcome(r, r.errors, 1, IF r.threw THEN "none" ELSE "first")

EntryPoint(api, enabled, arg) ==
  CASE api = "writeLog" -> DirectEntry(writeLogEntry(enabled, arg))
    [] api = "writeLogs" -> DirectEntry(writeLogsEntry(enabled, arg))
    [] api = "writeLogSafe" ->
         SafeEntry(writeLogEntry(enabled, arg),
                   writeLogEntry(enabled, SafeRetryPayload(arg)))
    [] api = "writeLogsSafe" ->
         SafeEntry(writeLogsEntry(enabled, arg), writeLogsEntry(enabled, arg))

\* A call of a public method that ends at its checks: logging is disabled,
\* or the argument is rejected.  (A call that passes them is StartWriteLog or
\* StartWriteLogs.)
PublicCall(api, arg) ==
  LET r == EntryPoint(api, LOGGING_ENABLED, arg)
  IN /\ callPc \in {"idle", "returned", "threw"}
     /\ calls < MaxEarlyCalls
     /\ ~r.proceeds
     /\ lastStep' = [op |-> "PublicCall", e |-> 0, api |-> api, arg |-> arg,
                     threw |-> r.threw, errors |-> r.errors,
                     attempts |-> r.attempts, result |-> r.result]
     /\ callApi' = api
     /\ calls' = calls + 1
     /\ callPc' = IF r.threw THEN "threw" ELSE "returned"
     /\ callError' = IF r.threw THEN "caller" ELSE "none"
     /\ callEntries' = <<>>
     /\ tasks' = <<>>
     /\ slackEntries' = <<>>
     /\ entryErrors' = entryErrors + r.errors
     /\ UNCHANGED <<now, breakerVars, entry, slackVars, files, cacheVars,
                    criticalWithinRoot, LOGGING_ENABLED, cryptVars, loaderVars>>

\* ----------------------------------------------------------------- AutoLoader
\* this.options after the constructor, for the three options the caches read.
DefaultOptions ==
  [maxCacheSize |-> MAX_CACHE_SIZE, maxUtilityCache |-> MAX_UTILITY_CACHE,
   deepCloneUtilities |-> TRUE]

\* A JavaScript Map as its keys in insertion order: delete(key), and set(key),
\* which keeps the position of a key already present.
MapDelete(map, key) == SelectSeq(map, LAMBDA k : k # key)

MapSet(map, key) == IF key \in Range(map) THEN map ELSE Append(map, key)

\* A plain object: whether Object.freeze was applied to it, and its own
\* properties, each holding a nested object {value: n}.
EmptyObject == [frozen |-> FALSE, props |-> << >>]

\* No object has been returned yet.
NoObject == [kind |-> "none"]

\* The constructor: empty caches, no utilities.
InitLoader(opts) ==
  /\ options = opts
  /\ loadedModuleCache = << >>
  /\ cacheAccessOrder = << >>
  /\ loadedCoreUtilities = EmptyObject
  /\ loadedUtilityNames = {}
  /\ returned = NoObject

\* The paths handed to _requireModuleOnce, and what _safeResolve makes of
\* them: a relative and an absolute spelling of the same file, three more
\* files, and a path outside the allowed base paths, for which it throws.
ModuleInputs == {"./a", "/base/a", "./b", "./c", "./d", "../x"}

_safeResolve(inputPath) ==
  CASE inputPath \in {"./a", "/base/a"} -> [threw |-> FALSE, path |-> "/base/a"]
    [] inputPath = "./b" -> [threw |-> FALSE, path |-> "/base/b"]
    [] inputPath = "./c" -> [threw |-> FALSE, path |-> "/base/c"]
    [] inputPath = "./d" -> [threw |-> FALSE, path |-> "/base/d"]
    [] OTHER -> [threw |-> TRUE, path |-> ""]

\* _updateCacheAccess(absPath): delete and re-insert, which moves the path to
\* the end.
_updateCacheAccess(order, absPath) == Append(MapDelete(order, absPath), absPath)

\* _evictLRUCache(): the first key of the access order leaves both maps.
_evictLRUCache_OrderOnly(cache, order) ==
  IF order = << >> THEN [cache |-> cache, order |-> order]
  ELSE [cache |-> cache, order |-> Tail(order)]

_evictLRUCache(cache, order) ==
  IF order = << >> THEN [cache |-> cache, order |-> order]
  ELSE [cache |-> MapDelete(cache, Head(order)), order |-> Tail(order)]

\* this.loadedModuleCache.size >= this.options.maxCacheSize
CacheFull_Late(size, maxCacheSize) == size > maxCacheSize

CacheFull(size, maxCacheSize) == size >= maxCacheSize

\* _requireModuleOnce(relativeOrAbsolutePath); loads: require(absPath)
\* succeeds.  A path _safeResolve rejects throws before the caches are
\* looked at; a hit refreshes the access order; a miss evicts when the cache
\* is full, then requires the module and throws when that fails.
_requireModuleOnce(inputPath, loads) ==
  LET r == _safeResolve(inputPath)
      absPath == r.path
      hit == ~r.threw /\ absPath \in Range(loadedModuleCache)
      full == CacheFull(Len(loadedModuleCache), options.maxCacheSize)
      ev == IF full THEN _evictLRUCache(loadedModuleCache, cacheAccessOrder)
            ELSE [cache |-> loadedModuleCache, order |-> cacheAccessOrder]
  IN /\ lastStep' = [op |-> "_requireModuleOnce", e |-> 0, path |-> absPath,
                     hit |-> hit, evicted |-> ~r.threw /\ ~hit /\ full,
                     threw |-> r.threw \/ (~hit /\ ~loads)]
     /\ IF r.threw
        THEN UNCHANGED moduleVars
        ELSE IF hit
        THEN /\ cacheAccessOrder' = _updateCacheAccess(cacheAccessOrder, absPath)
             /\ UNCHANGED loadedModuleCache
        ELSE IF ~loads
        THEN /\ loadedModuleCache' = ev.cache
             /\ cacheAccessOrder' = ev.order
        ELSE /\ loadedModuleCache' = MapSet(ev.cache, absPath)
             /\ cacheAccessOrder' = _updateCacheAccess(ev.order, absPath)
     /\ UNCHANGED <<now, breakerVars, entry, slackVars, files, cacheVars,
                    criticalWithinRoot, LOGGING_ENABLED, cryptVars, entryErrors,
                    options, utilityVars, callVars>>

\* The utilities the configuration can name, and the empty name.
UtilityNames == {"u1", "u2", "u3"}

\* The Error _requireUtilityIntoCache throws: its catch block wraps the
\* message of whatever failed inside the try block.
UtilityLoadError(inner) == <<"Failed to load utility", inner>>

\* this.loadedUtilityNames.size >= this.options.maxUtilityCache
UtilityCacheFull_Late(size, maxUtilityCache) == size > maxUtilityCache

UtilityCacheFull(size, maxUtilityCache) == size >= maxUtilityCache

\* obj[key] = {value: v} on a plain object.
WithProperty(props, key, v) ==
  [k \in DOMAIN props \cup {key} |-> IF k = key THEN v ELSE props[k]]

\* _requireUtilityIntoCache(utilityName) on a store and a set of names;
\* missing: the utilities whose file _resolveFile does not find.  An empty or
\* loaded name returns at once; a full cache, a missing file and a store that
\* cannot take the property (the class body is strict code, so the assignment
\* to a frozen object throws a TypeError) throw the wrapped error.
RequireUtility(store, names, opts, utilityName, missing) ==
  LET unchanged == [store |-> store, names |-> names]
  IN IF utilityName = "" \/ utilityName \in names
     THEN unchanged @@ [threw |-> FALSE, message |-> << >>]
     ELSE IF UtilityCacheFull(Cardinality(names), opts.maxUtilityCache)
     THEN unchanged @@ [threw |-> TRUE,
                        message |-> UtilityLoadError("Utility cache limit reached")]
     ELSE IF utilityName \in missing
     THEN unchanged @@ [threw |-> TRUE, message |-> UtilityLoadError("Module not found")]
     ELSE IF store.frozen
     THEN unchanged @@ [threw |-> TRUE,
                        message |-> UtilityLoadError("Cannot add property")]
     ELSE [store |-> [store EXCEPT !.props = WithProperty(store.props, utilityName, 0)],
           names |-> names \cup {utilityName},
           threw |-> FALSE, message |-> << >>]

_requireUtilityIntoCache(utilityName, missing) ==
  LET r == RequireUtility(loadedCoreUtilities, loadedUtilityNames, options,
                          utilityName, missing)
  IN /\ lastStep' = [op |-> "_requireUtilityIntoCache", e |-> 0,
                     name |-> utilityName, threw |-> r.threw, message |-> r.message]
     /\ loadedCoreUtilities' = r.store
     /\ loadedUtilityNames' = r.names
     /\ UNCHANGED <<now, breakerVars, entry, slackVars, files, cacheVars,
                    criticalWithinRoot, LOGGING_ENABLED, cryptVars, entryErrors,
                    options, moduleVars, returned, callVars>>

\* What getCoreUtilities and loadCoreUtilities return: a deep clone of the
\* store, or the store itself after Object.freeze.
ReturnUtilities(store, opts) ==
  IF opts.deepCloneUtilities
  THEN [store |-> store,
        returned |-> [kind |-> "copy", frozen |-> FALSE, props |-> store.props]]
  ELSE [store |-> [store EXCEPT !.frozen = TRUE], returned |-> [kind |-> "store"]]

getCoreUtilities ==
  LET r == ReturnUtilities(loadedCoreUtilities, options)
  IN /\ lastStep' = [op |-> "getCoreUtilities", e |-> 0, threw |-> FALSE]
     /\ loadedCoreUtilities' = r.store
     /\ returned' = r.returned
     /\ UNCHANGED <<now, breakerVars, entry, slackVars, files, cacheVars,
                    criticalWithinRoot, LOGGING_ENABLED, cryptVars, entryErrors,
                    options, moduleVars, loadedUtilityNames, callVars>>

\* The loop of loadCoreUtilities over the configured names: it ends at the
\* first utility that throws.
RECURSIVE LoadAll(_, _, _, _, _, _)
LoadAll(store, names, opts, core, k, missing) ==
  IF k > Len(core)
  THEN [store |-> store, names |-> names, threw |-> FALSE, message |-> << >>]
  ELSE LET r == RequireUtility(store, names, opts, core[k], missing)
       IN IF r.threw THEN r
          ELSE LoadAll(r.store, r.names, opts, core, k + 1, missing)

\* The lists of core utilities of the configuration.
CoreLists == {<< >>, <<"u1">>, <<"u2", "u1">>, <<"u3">>}

\* loadCoreUtilities() of an initialized loader whose configuration names the
\* utilities of core.  (Its Logger.writeLog call is not awaited and acts on
\* the Logger alone.)
loadCoreUtilities(core, missing) ==
  LET l == LoadAll(loadedCoreUtilities, loadedUtilityNames, options, core, 1, missing)
      r == ReturnUtilities(l.store, options)
  IN /\ lastStep' = [op |-> "loadCoreUtilities", e |-> 0, threw |-> l.threw]
     /\ loadedUtilityNames' = l.names
     /\ IF l.threw
        THEN /\ loadedCoreUtilities' = l.store
             /\ UNCHANGED returned
        ELSE /\ loadedCoreUtilities' = r.store
             /\ returned' = r.returned
     /\ UNCHANGED <<now, breakerVars, entry, slackVars, files, cacheVars,
                    criticalWithinRoot, LOGGING_ENABLED, cryptVars, entryErrors,
                    options, moduleVars, callVars>>

\* The caller writes to the object it was handed: utils[name].value = v.
\* Object.freeze does not reach nested objects, so the write lands in the
\* store when the store itself was returned, else in the copy.
SetNestedOfReturned(name, v) ==
  /\ returned # NoObject
  /\ lastStep' = [op |-> "SetNestedOfReturned", e |-> 0, threw |-> FALSE]
  /\ IF returned.kind = "store"
     THEN /\ name \in DOMAIN loadedCoreUtilities.props
          /\ loadedCoreUtilities' =
               [loadedCoreUtilities EXCEPT !.props = WithProperty(@, name, v)]
          /\ UNCHANGED returned
     ELSE /\ name \in DOMAIN returned.props
          /\ returned' = [returned EXCEPT !.props = WithProperty(@, name, v)]
          /\ UNCHANGED loadedCoreUtilities
  /\ UNCHANGED <<now, breakerVars, entry, slackVars, files, cacheVars,
                 criticalWithinRoot, LOGGING_ENABLED, cryptVars, entryErrors,
                 options, moduleVars, loadedUtilityNames, callVars>>

\* The caller writes a property of the object it was handed:
\* utils[name] = {value: v}.  A frozen object refuses the write.
SetPropertyOfReturned(name, v) ==
  /\ returned # NoObject
  /\ IF returned.kind = "store"
     THEN /\ lastStep' = [op |-> "SetPropertyOfReturned", e |-> 0,
                          threw |-> loadedCoreUtilities.frozen]
          /\ loadedCoreUtilities' =
               IF loadedCoreUtilities.frozen THEN loadedCoreUtilities
               ELSE [loadedCoreUtilities EXCEPT !.props = WithProperty(@, name, v)]
          /\ UNCHANGED returned
     ELSE /\ lastStep' = [op |-> "SetPropertyOfReturned", e |-> 0, threw |-> FALSE]
          /\ returned' = [returned EXCEPT !.props = WithProperty(@, name, v)]
          /\ UNCHANGED loadedCoreUtilities
  /\ UNCHANGED <<now, breakerVars, entry, slackVars, files, cacheVars,
                 criticalWithinRoot, LOGGING_ENABLED, cryptVars, entryErrors,
                 options, moduleVars, loadedUtilityNames, callVars>>

\* ------------------------------------------------------------ cache scenario
\* The n-th distinct relative path handed to _resolvePathWithinRoot and the
\* n-th distinct data value handed to _resolvePathPattern.
CachePath(n) == _appendTimestampToPath([NoPath EXCEPT !.base = <<"f1", 1>>], n)

\* The keys a call may use: the oldest and one never used before.
CacheCandidates(seen) ==
  {n \in {1, Cardinality(seen) + 1} :
     n >= 1 /\ n <= CACHE_SIZE_LIMIT + MaxExtraKeys}

\* _resolvePathWithinRoot(LOG_ROOT, relativePath) with the n-th path.
ResolvePathCall(n) ==
  /\ n \in CacheCandidates(pathKeysSeen)
  /\ Len(_PATH_CACHE) - Len(_RESOLVE_CACHE) <= MaxSkew
  /\ lastStep' = [op |-> "ResolvePathCall", e |-> 0, n |-> n, missing |-> FALSE]
  /\ _PATH_CACHE' = _resolvePathWithinRoot(_PATH_CACHE, LOG_ROOT, CachePath(n))
  /\ pathKeysSeen' = pathKeysSeen \cup {<<LOG_ROOT, CachePath(n)>>}
  /\ UNCHANGED <<now, breakerVars, entry, slackVars, files, _RESOLVE_CACHE, _ROUTE_CACHE,
                 resolveKeysSeen, envVars, callVars>>

\* _resolvePathPattern(template, data) with the n-th data value; missing: the
\* data lacks the placeholder.
ResolvePatternCall(n, missing) ==
  /\ n \in CacheCandidates(resolveKeysSeen)
  /\ Len(_RESOLVE_CACHE) - Len(_PATH_CACHE) <= MaxSkew
  /\ lastStep' = [op |-> "ResolvePatternCall", e |-> 0, n |-> n, missing |-> missing]
  /\ _RESOLVE_CACHE' = _resolvePathPattern(_RESOLVE_CACHE, "f1", IF missing THEN 0 ELSE n,
                                           missing)
  /\ resolveKeysSeen' = IF missing THEN resolveKeysSeen
                        ELSE resolveKeysSeen \cup {<<"f1", n>>}
  /\ UNCHANGED <<now, breakerVars, entry, slackVars, files, _PATH_CACHE, _ROUTE_CACHE,
                 pathKeysSeen, envVars, callVars>>

\* The n-th distinct flag handed to getRouteByFlag, trimmed and in lower case.
RouteFlag(n) == ToString(n)

\* getRouteByFlag(flag) with the first flag again or with a flag never seen:
\* a route found in the routing table and a synthesized one are both stored.
GetRouteCall(n) ==
  /\ n \in {1, Len(_ROUTE_CACHE) + 1}
  /\ n <= CACHE_SIZE_LIMIT + MaxExtraKeys
  /\ lastStep' = [op |-> "GetRouteCall", e |-> 0]
  /\ _ROUTE_CACHE' = getRouteByFlag(_ROUTE_CACHE, RouteFlag(n), now)
  /\ UNCHANGED <<now, breakerVars, entry, slackVars, files, _PATH_CACHE, _RESOLVE_CACHE,
                 pathKeysSeen, resolveKeysSeen, envVars, callVars>>

\* ------------------------------------------------------------ field encryption
\* A string is the sequence of its UTF-16 code units: a BMP character, a high
\* surrogate, a low surrogate, the replacement character U+FFFD.
CodeUnits == {"a", "HS", "LS", "FFFD"}

StringValues == UNION {[1..n -> CodeUnits] : n \in 0..MaxValueLen}

\* cipher.update(String(value), "utf8"): a surrogate pair is one scalar, a
\* surrogate without its partner is encoded as U+FFFD.
RECURSIVE Utf8Encode(_)
Utf8Encode(s) ==
  IF s = <<>> THEN <<>>
  ELSE IF Len(s) >= 2 /\ s[1] = "HS" /\ s[2] = "LS"
       THEN <<"pair">> \o Utf8Encode(SubSeq(s, 3, Len(s)))
  ELSE IF s[1] \in {"HS", "LS"} THEN <<"FFFD">> \o Utf8Encode(Tail(s))
  ELSE <<s[1]>> \o Utf8Encode(Tail(s))

\* decrypted.toString("utf8")
RECURSIVE Utf8Decode(_)
Utf8Decode(b) ==
  IF b = <<>> THEN <<>>
  ELSE IF b[1] = "pair" THEN <<"HS", "LS">> \o Utf8Decode(Tail(b))
  ELSE <<b[1]>> \o Utf8Decode(Tail(b))

\* buffer.toString("base64") and Buffer.from(text, "base64").
Base64(buffer) == [b64 |-> buffer]

Base64Decode(text) == text.b64

\* AES-256-GCM: the ciphertext and the authentication tag of the bytes under
\* key and iv; the ciphertext is as long as the bytes.
GcmCipher(bytes, keyBuffer, iv) ==
  [key |-> keyBuffer, iv |-> iv, bytes |-> bytes, len |-> Len(bytes)]

GcmTag(bytes, keyBuffer, iv) == [key |-> keyBuffer, iv |-> iv, mac |-> bytes]

\* _encryptValue(value, keyBuffer) with the random iv drawn.
_encryptValue(value, keyBuffer, iv) ==
  [payload |-> Base64(GcmCipher(Utf8Encode(value), keyBuffer, iv)),
   iv |-> Base64(iv),
   tag |-> Base64(GcmTag(Utf8Encode(value), keyBuffer, iv))]

\* _decryptValue(segment, keyBuffer): segment.payload is read when it is a
\* string, segment.encrypted otherwise; decipher.final() throws when the tag
\* does not authenticate the ciphertext under key and iv.
_decryptValue(segment, keyBuffer) ==
  LET encrypted == Base64Decode(IF "payload" \in DOMAIN segment THEN segment.payload
                                ELSE segment.encrypted)
      iv == Base64Decode(segment.iv)
      tag == Base64Decode(segment.tag)
  IN IF tag = GcmTag(encrypted.bytes, keyBuffer, iv) /\ encrypted.key = keyBuffer
        /\ encrypted.iv = iv
     THEN [threw |-> FALSE, value |-> Utf8Decode(encrypted.bytes)]
     ELSE [threw |-> TRUE, value |-> <<>>]

\* _getEncryptionKeyBuffer(): what it returns or that it throws, the cached
\* buffer afterwards and the errors it records.  An absent key is cached as
\* null; a key that does not decode to 32 bytes is cached as null too, and
\* the call that finds it throws.
_getEncryptionKeyBuffer(buffer, rawKey) ==
  IF buffer # "undefined"
  THEN [ret |-> buffer, threw |-> FALSE, buffer |-> buffer, errors |-> 0]
  ELSE IF rawKey = "absent"
  THEN [ret |-> "null", threw |-> FALSE, buffer |-> "null", errors |-> 0]
  ELSE IF rawKey = "invalid"
  THEN [ret |-> "null", threw |-> TRUE, buffer |-> "null", errors |-> 1]
  ELSE [ret |-> "key", threw |-> FALSE, buffer |-> "key", errors |-> 0]

\* A field value in plaintext, and the segment _applyEncryption puts in its
\* place.
PlainValue(v) == [kind |-> "string", value |-> v]

EncryptedSegment(field, v, keyBuffer, iv) ==
  [kind |-> "segment", placeholder |-> field,
   encrypted |-> _encryptValue(v, keyBuffer, iv).payload,
   iv |-> _encryptValue(v, keyBuffer, iv).iv,
   tag |-> _encryptValue(v, keyBuffer, iv).tag,
   algorithm |-> "aes-256-gcm"]

\* The targets a route or a log can name: the field of the entry and a field
\* the entry does not have.
EncryptionTargets == SUBSET {"secret", "other"}

\* The errors recorded by a call of _applyEncryption that gets no key: the
\* ones of the key lookup, and its own (validation failed, or key unavailable).
KeyUnavailableErrors_Silent(k) == k.errors

KeyUnavailableErrors(k) == k.errors + 1

\* _applyEncryption(entry, targets) on the entry {data: {secret: v}}: without
\* targets it returns at once; when the key lookup throws or finds no key the
\* error is recorded and the entry returned as it is; otherwise every target
\* the data has is replaced by its segment.
_applyEncryption(v, targets, iv) ==
  LET k == _getEncryptionKeyBuffer(_ENCRYPTION_KEY_BUFFER, LOG_ENCRYPTION_KEY)
  IN /\ encryptionErrors < MaxCryptErrors
     /\ lastStep' = [op |-> "_applyEncryption", e |-> 0, targets |-> targets,
                     threw |-> FALSE]
     /\ IF targets = {}
        THEN /\ cryptEntry' = [plain |-> v, secret |-> PlainValue(v)]
             /\ UNCHANGED <<_ENCRYPTION_KEY_BUFFER, encryptionErrors>>
        ELSE /\ _ENCRYPTION_KEY_BUFFER' = k.buffer
             /\ IF k.threw \/ k.ret = "null"
                THEN /\ encryptionErrors' = encryptionErrors + KeyUnavailableErrors(k)
                     /\ cryptEntry' = [plain |-> v, secret |-> PlainValue(v)]
                ELSE /\ encryptionErrors' = encryptionErrors
                     /\ cryptEntry' =
                          [plain |-> v,
                           secret |-> IF "secret" \in targets
                                      THEN EncryptedSegment("secret", v, k.ret, iv)
                                      ELSE PlainValue(v)]
     /\ UNCHANGED <<now, breakerVars, entry, slackVars, files, cacheVars,
                    criticalWithinRoot, LOGGING_ENABLED, LOG_ENCRYPTION_KEY, entryErrors,
                    loaderVars, callVars>>

\* value && typeof value === "object" && value.iv && value.tag && it has its
\* own property encrypted or payload.
IsSegment(value) ==
  /\ value.kind = "segment"
  /\ {"iv", "tag"} \subseteq DOMAIN value
  /\ "encrypted" \in DOMAIN value \/ "payload" \in DOMAIN value

\* decryptEntry(entry) on the entry last handed to _applyEncryption: null
\* without data, when the key lookup throws and when there is no key; else
\* the decrypted fields, or null when no field was decrypted.
decryptEntry ==
  LET k == _getEncryptionKeyBuffer(_ENCRYPTION_KEY_BUFFER, LOG_ENCRYPTION_KEY)
      d == _decryptValue(cryptEntry.secret, k.ret)
      null == [kind |-> "null"]
  IN /\ encryptionErrors < MaxCryptErrors
     /\ IF cryptEntry.secret.kind = "none"
        THEN /\ lastStep' = [op |-> "decryptEntry", e |-> 0, result |-> null,
                             threw |-> FALSE]
             /\ UNCHANGED <<_ENCRYPTION_KEY_BUFFER, encryptionErrors>>
        ELSE /\ _ENCRYPTION_KEY_BUFFER' = k.buffer
             /\ IF k.threw \/ k.ret = "null"
                THEN /\ lastStep' = [op |-> "decryptEntry", e |-> 0, result |-> null,
                                     threw |-> FALSE]
                     /\ encryptionErrors' = encryptionErrors + k.errors
                ELSE IF ~IsSegment(cryptEntry.secret)
                THEN /\ lastStep' = [op |-> "decryptEntry", e |-> 0, result |-> null,
                                     threw |-> FALSE]
                     /\ encryptionErrors' = encryptionErrors
                ELSE IF d.threw
                THEN /\ lastStep' = [op |-> "decryptEntry", e |-> 0, result |-> null,
                                     threw |-> FALSE]
                     /\ encryptionErrors' = encryptionErrors + 1
                ELSE /\ lastStep' = [op |-> "decryptEntry", e |-> 0,
                                     result |-> [kind |-> "object", secret |-> d.value],
                                     threw |-> FALSE]
                     /\ encryptionErrors' = encryptionErrors
     /\ UNCHANGED <<now, breakerVars, entry, slackVars, files, cacheVars,
                    criticalWithinRoot, LOGGING_ENABLED, LOG_ENCRYPTION_KEY, cryptEntry,
                    entryErrors, loaderVars, callVars>>

\* The flags of the lookup scenario: a configured flag and a flag without a
\* route, each in several spellings, and a flag of white space only.
LookupFlags == {"f1", "F1", "f1 ", "x9", "X9 ", " "}

\* getRouteByFlag(flag) called directly; the step records what it returned.
GetRoute(flag, walkThrows) ==
  /\ lastStep' = [op |-> "GetRoute", e |-> 0, flag |-> flag,
                  route |-> RouteLookup(_ROUTE_CACHE, flag, now, walkThrows).route,
                  hit |-> RouteLookup(_ROUTE_CACHE, flag, now, walkThrows).hit,
                  threw |-> FALSE]
  /\ _ROUTE_CACHE' = RouteLookup(_ROUTE_CACHE, flag, now, walkThrows).cache
  /\ UNCHANGED <<now, breakerVars, entry, slackVars, files, _PATH_CACHE, _RESOLVE_CACHE,
                 pathKeysSeen, resolveKeysSeen, envVars, callVars>>

\* Time passes to the next midnight.
Midnight ==
  /\ FormatDay(now) < MaxDays
  /\ now' = (FormatDay(now) + 1) * MS_PER_DAY
  /\ lastStep' = [op |-> "Midnight", e |-> 0]
  /\ UNCHANGED <<breakerVars, entry, slackVars, files, cacheVars, envVars,
                 callVars>>

\* ------------------------------------------------------------ specifications
\* The state after the class is loaded, but for the caches and the
\* configured roots: static fields at their initializers, an empty log
\* directory, no call made.
InitLoggerStatics ==
  /\ now = 1
  /\ _ENCRYPTION_KEY_BUFFER = "undefined"
  /\ encryptionErrors = 0
  /\ entryErrors = 0
  /\ cryptEntry = [plain |-> <<>>, secret |-> [kind |-> "none"]]
  /\ _SLACK_FAILURE_COUNT = 0
  /\ _SLACK_COOLDOWN_UNTIL = 0
  /\ _SLACK_FALLBACK_COOLDOWN_UNTIL = 0
  /\ entry = [e \in Entries |-> NoLog]
  /\ slackPc = [e \in Entries |-> "none"]
  /\ slackRetryAttempts = [e \in Entries |-> 0]
  /\ slackTimers = {}
  /\ slackCalls = [e \in Entries |-> 0]
  /\ slackFallbacks = [e \in Entries |-> 0]
  /\ slackFallbackPath = [e \in Entries |-> NoPath]
  /\ files = << >>
  /\ _ROUTE_CACHE = << >>
  /\ callApi = "none"
  /\ callPc = "idle"
  /\ callError = "none"
  /\ callEntries = << >>
  /\ calls = 0
  /\ tasks = << >>
  /\ slackEntries = << >>
  /\ lastStep = [op |-> "Init", e |-> 0]

\* The Logger class next to a loader constructed with the default options.
InitStatics == InitLoggerStatics /\ InitLoader(DefaultOptions)

\* Logging is enabled and a valid encryption key is configured.
InitLogger ==
  /\ InitStatics
  /\ LOGGING_ENABLED = TRUE
  /\ LOG_ENCRYPTION_KEY = "valid"

\* The state after the class is loaded: the caches are empty.
Init ==
  /\ InitLogger
  /\ _PATH_CACHE = << >>
  /\ _RESOLVE_CACHE = << >>
  /\ pathKeysSeen = {}
  /\ resolveKeysSeen = {}
  /\ criticalWithinRoot \in BOOLEAN

\* The cache scenario starts after construction or after a run of w
\* resolutions of distinct paths and data, which leaves both caches with
\* their first w keys in order of insertion.
InitCache ==
  /\ InitLogger
  /\ criticalWithinRoot = TRUE
  /\ \E w \in {0, CACHE_SIZE_LIMIT - CacheHeadroom} :
       /\ _PATH_CACHE = [k \in 1..w |-> <<LOG_ROOT, CachePath(k)>>]
       /\ _RESOLVE_CACHE = [k \in 1..w |-> <<"f1", k>>]
       /\ pathKeysSeen = {<<LOG_ROOT, CachePath(k)>> : k \in 1..w}
       /\ resolveKeysSeen = {<<"f1", k>> : k \in 1..w}

\* The local configuration: CRITICAL_ROOT is LOG_ROOT/critical.
InitLocal == Init /\ criticalWithinRoot = TRUE

\* The notification circuit breaker: critical entries offered to
\* sendToSlackCritical, deliveries succeeding and failing, retry timers.
NextBreaker ==
  \/ Tick
  \/ \E e \in Entries : OfferCritical(e)
  \/ \E t \in slackTimers : SlackRetryFires(t)
  \/ \E e \in Entries : SlackSucceeds(e)
  \/ \E e \in Entries, hash \in 0..MaxHash : SlackFails(e, hash)
  \/ \E e \in Entries, env \in WriteEnvs : SlackFallbackSettles(e, env)

SpecBreaker == InitLocal /\ [][NextBreaker]_vars

\* The same under a clock that does not stop.
SpecBreakerClock == SpecBreaker /\ WF_vars(Tick)

\* A burst of concurrent writeLog calls: MaxBurst critical entries were
\* offered to sendToSlackCritical at the same instant, with the breaker
\* closed, and every delivery is awaiting Slack.critical.
Burst == 1..MaxBurst

InitBurst ==
  /\ InitLoader(DefaultOptions)
  /\ LOGGING_ENABLED = TRUE
  /\ LOG_ENCRYPTION_KEY = "valid"
  /\ criticalWithinRoot = TRUE
  /\ now = 1
  /\ _ENCRYPTION_KEY_BUFFER = "undefined"
  /\ encryptionErrors = 0
  /\ entryErrors = 0
  /\ cryptEntry = [plain |-> <<>>, secret |-> [kind |-> "none"]]
  /\ _SLACK_FAILURE_COUNT = 0
  /\ _SLACK_COOLDOWN_UNTIL = 0
  /\ _SLACK_FALLBACK_COOLDOWN_UNTIL = 0
  /\ entry = [e \in Burst |->
       EntryOf([flag |-> "f1", key |-> 1, complete |-> TRUE, critical |-> TRUE,
                size |-> EntryBytes], 1)]
  /\ slackPc = [e \in Burst |-> "sending"]
  /\ slackRetryAttempts = [e \in Burst |-> 0]
  /\ slackTimers = {}
  /\ slackCalls = [e \in Burst |-> 1]
  /\ slackFallbacks = [e \in Burst |-> 0]
  /\ slackFallbackPath = [e \in Burst |-> NoPath]
  /\ files = << >>
  /\ _ROUTE_CACHE = << >>
  /\ _PATH_CACHE = << >>
  /\ _RESOLVE_CACHE = << >>
  /\ pathKeysSeen = {}
  /\ resolveKeysSeen = {}
  /\ callApi = "none"
  /\ callPc = "idle"
  /\ callError = "none"
  /\ callEntries = << >>
  /\ calls = 0
  /\ tasks = << >>
  /\ slackEntries = << >>
  /\ lastStep = [op |-> "Init", e |-> 0]

\* Time passes while the deliveries of the burst are in flight: less than the
\* cooldown, as the notifier's timeout bounds every delivery.
Elapse ==
  /\ now + BurstTickMs <= MaxBurstNow
  /\ now' = now + BurstTickMs
  /\ lastStep' = [op |-> "Elapse", e |-> 0]
  /\ UNCHANGED <<breakerVars, entry, slackVars, files, cacheVars, envVars,
                 callVars>>

NextBurst ==
  \/ Elapse
  \/ \E e \in Burst : SlackSucceeds(e)
  \/ \E e \in Burst : SlackFails(e, 0)
  \/ \E e \in Burst : SlackFallbackSettles(e, NoFault)

SpecBurst == InitBurst /\ [][NextBurst]_vars

\* The bounded caches under a long run of resolutions.
NextCache ==
  \/ \E n \in CacheCandidates(pathKeysSeen) : ResolvePathCall(n)
  \/ \E n \in CacheCandidates(resolveKeysSeen), missing \in BOOLEAN :
       ResolvePatternCall(n, missing)

SpecCache == InitCache /\ [][NextCache]_vars

\* The route cache under a long run of getRouteByFlag calls.
NextRoute == \E n \in {1, Len(_ROUTE_CACHE) + 1} : GetRouteCall(n)

SpecRoute == InitLocal /\ [][NextRoute]_vars

\* getRouteByFlag called with any spelling of the flags, across midnight.
NextLookup ==
  \/ \E flag \in LookupFlags, walkThrows \in BOOLEAN : GetRoute(flag, walkThrows)
  \/ Midnight

SpecLookup == InitLocal /\ [][NextLookup]_vars

\* The encryption key as the environment configures it.
EncryptionKeys == {"absent", "invalid", "valid"}

InitCrypt ==
  /\ InitStatics
  /\ LOGGING_ENABLED = TRUE
  /\ LOG_ENCRYPTION_KEY \in EncryptionKeys
  /\ _PATH_CACHE = << >>
  /\ _RESOLVE_CACHE = << >>
  /\ pathKeysSeen = {}
  /\ resolveKeysSeen = {}
  /\ criticalWithinRoot = TRUE

\* Entries are encrypted and decrypted under each configuration of the key.
NextCrypt ==
  \/ \E v \in StringValues, targets \in EncryptionTargets, iv \in 0..MaxIv :
       _applyEncryption(v, targets, iv)
  \/ decryptEntry

SpecCrypt == InitCrypt /\ [][NextCrypt]_vars

\* The public methods called with every kind of argument, with logging
\* enabled and disabled.
InitSwitch ==
  /\ InitStatics
  /\ LOGGING_ENABLED \in BOOLEAN
  /\ LOG_ENCRYPTION_KEY = "valid"
  /\ _PATH_CACHE = << >>
  /\ _RESOLVE_CACHE = << >>
  /\ pathKeysSeen = {}
  /\ resolveKeysSeen = {}
  /\ criticalWithinRoot = TRUE

NextSwitch ==
  \/ Tick
  \/ \E api \in PublicApis, arg \in Arguments : PublicCall(api, arg)

SpecSwitch == InitSwitch /\ [][NextSwitch]_vars

\* The Logger class as loaded, next to a loader under test.
LoaderInits ==
  /\ InitLoggerStatics
  /\ LOGGING_ENABLED = TRUE
  /\ LOG_ENCRYPTION_KEY = "valid"
  /\ _PATH_CACHE = << >>
  /\ _RESOLVE_CACHE = << >>
  /\ pathKeysSeen = {}
  /\ resolveKeysSeen = {}
  /\ criticalWithinRoot = TRUE

\* A loader constructed with each maxCacheSize, requiring modules.  The
\* options are spread over the defaults, so a configured 0 stays 0.
InitModules ==
  /\ LoaderInits
  /\ \E m \in 0..MaxCacheSize :
       InitLoader([DefaultOptions EXCEPT !.maxCacheSize = m])

NextModules ==
  \E inputPath \in ModuleInputs, loads \in BOOLEAN : _requireModuleOnce(inputPath, loads)

SpecModules == InitModules /\ [][NextModules]_vars

\* A loader constructed with each maxUtilityCache and deepCloneUtilities,
\* loading utilities and handing them out.
InitUtilities ==
  /\ LoaderInits
  /\ \E m \in 0..MaxUtilityCache, d \in BOOLEAN :
       InitLoader([DefaultOptions EXCEPT !.maxUtilityCache = m,
                                         !.deepCloneUtilities = d])

NextUtilities ==
  \/ \E name \in UtilityNames \cup {""}, missing \in SUBSET UtilityNames :
       _requireUtilityIntoCache(name, missing)
  \/ getCoreUtilities
  \/ \E core \in CoreLists, missing \in SUBSET UtilityNames :
       loadCoreUtilities(core, missing)
  \/ \E name \in UtilityNames, v \in 0..MaxNested : SetNestedOfReturned(name, v)
  \/ \E name \in UtilityNames, v \in 0..MaxNested : SetPropertyOfReturned(name, v)

SpecUtilities == InitUtilities /\ [][NextUtilities]_vars

\* writeLog and writeLogBatchFile with their storage and notification steps.
NextWrite ==
  \/ \E log \in Logs, valid \in BOOLEAN, hash \in 0..MaxHash : StartWriteLog(log, valid, hash)
  \/ \E entryCount \in 1..MaxBatch : StartWriteLogBatchFile("batch", entryCount)
  \/ \E i \in DOMAIN tasks, env \in WriteEnvs : TaskPrimarySettles(i, env)
  \/ \E i \in DOMAIN tasks, env \in WriteEnvs : TaskFallbackSettles(i, env)
  \/ WriteLogAfterStorage
  \/ WriteLogAfterCritical
  \/ WriteLogAfterMissing
  \/ BatchFileReturns
  \/ AfterSlack
  \/ \E e \in Entries : SlackSucceeds(e)
  \/ \E e \in Entries, hash \in 0..MaxHash : SlackFails(e, hash)
  \/ \E e \in Entries, env \in WriteEnvs : SlackFallbackSettles(e, env)

SpecWrite == Init /\ [][NextWrite]_vars

\* Repeated direct writeToStorage calls on one file, with time passing.
NextRotate ==
  \/ Tick
  \/ \E size \in RotateSizes : StartWriteToStorage(size)
  \/ \E i \in DOMAIN tasks, env \in WriteEnvs : TaskPrimarySettles(i, env)
  \/ \E i \in DOMAIN tasks, env \in WriteEnvs : TaskFallbackSettles(i, env)
  \/ WriteToStorageReturns

SpecRotate == InitLocal /\ [][NextRotate]_vars

\* _writeFileWithRetry called directly on one file, under every environment.
NextRetry ==
  \/ Tick
  \/ \E size \in RotateSizes, envs \in RetryEnvs : WriteFileCall(size, envs)

SpecRetry == InitLocal /\ [][NextRetry]_vars

\* writeToStorage called directly with arbitrary relative paths.
NextPath ==
  \/ \E raw \in RawPaths : StartWriteToStoragePath(raw)
  \/ \E i \in DOMAIN tasks, env \in WriteEnvs : TaskPrimarySettles(i, env)
  \/ \E i \in DOMAIN tasks, env \in WriteEnvs : TaskFallbackSettles(i, env)
  \/ WriteToStorageReturns

SpecPath == InitLocal /\ [][NextPath]_vars

\* writeLogs: a batch of logs, its storage promises and its notifications.
BatchLogs ==
  {logs \in UNION {[1..n -> Logs] : n \in 1..MaxBatch} :
     Cardinality({k \in DOMAIN logs : logs[k].critical}) <= MaxBatchCritical}

\* The environments the primary write of a storage promise can meet.
BatchEnvs ==
  IF Cardinality({j \in DOMAIN tasks : tasks[j].primaryErr # "none"}) < MaxFaults
  THEN WriteEnvs ELSE {NoFault}

NextBatch ==
  \/ \E logs \in BatchLogs, valid \in BOOLEAN, hash \in 0..MaxHash :
       StartWriteLogs(logs, valid, hash)
  \/ \E i \in DOMAIN tasks, env \in BatchEnvs : TaskPrimarySettles(i, env)
  \/ \E i \in DOMAIN tasks, env \in WriteEnvs : TaskFallbackSettles(i, env)
  \/ WriteLogsAfterAll
  \/ AfterSlack
  \/ \E e \in Entries : SlackSucceeds(e)
  \/ \E e \in Entries, hash \in 0..MaxHash : SlackFails(e, hash)
  \/ \E e \in Entries, env \in WriteEnvs : SlackFallbackSettles(e, env)

SpecBatch == InitLocal /\ [][NextBatch]_vars

\* writeLogs with batches whose entries miss a placeholder: two spellings of
\* one flag and a second flag, and an entry that resolves.
DedupFlags == {"f1", "f1 ", "f2"}

DedupLogs ==
  {[flag |-> f, key |-> 1, complete |-> FALSE, critical |-> FALSE, size |-> EntryBytes] :
     f \in DedupFlags}
  \cup {[flag |-> "f1", key |-> 1, complete |-> TRUE, critical |-> FALSE,
          size |-> EntryBytes]}

DedupBatches == UNION {[1..n -> DedupLogs] : n \in 1..MaxBatch}

NextDedup ==
  \/ \E logs \in DedupBatches, hash \in 0..MaxHash : StartWriteLogs(logs, TRUE, hash)
  \/ \E i \in DOMAIN tasks, env \in BatchEnvs : TaskPrimarySettles(i, env)
  \/ \E i \in DOMAIN tasks, env \in WriteEnvs : TaskFallbackSettles(i, env)
  \/ WriteLogsAfterAll

SpecDedup == InitLocal /\ [][NextDedup]_vars

\* ------------------------------------------------------------------ claims
\* A step in which Slack.critical rejects for entry e (the catch block runs).
FailureStep(e) == slackPc[e] = "sending" /\ slackPc'[e] \in {"suppressed", "fallback"}
\* A step in which Slack.critical resolves for entry e.
SuccessStep(e) == slackPc[e] = "sending" /\ slackPc'[e] = "sent"
\* A step in which sendToSlackCritical(e) is called (by writeLog, writeLogs or
\* a retry timer).
CallStep(e) == slackPc[e] \in {"none", "fellback"} /\ slackPc'[e] \in {"skipped", "sending"}

\* C1: a recorded failure that brings the failure counter to the threshold
\* (the counter stood at 2 after two failures with no success in between)
\* opens the breaker in the same step: the counter is 0 afterwards and the
\* cooldown deadline is now + 60 s; any other failure adds one to the counter
\* and leaves the deadline alone.
C1_OpensAtThreshold ==
  [][\A e \in Entries : FailureStep(e) =>
        IF _SLACK_FAILURE_COUNT = SLACK_FAILURE_THRESHOLD - 1
        THEN /\ _SLACK_FAILURE_COUNT' = 0
             /\ _SLACK_COOLDOWN_UNTIL' = now + SLACK_FAILURE_COOLDOWN_MS
        ELSE /\ _SLACK_FAILURE_COUNT' = _SLACK_FAILURE_COUNT + 1
             /\ _SLACK_COOLDOWN_UNTIL' = _SLACK_COOLDOWN_UNTIL]_vars

C1_Witness ==
  /\ lastStep.op = "SlackFails"
  /\ _SLACK_FAILURE_COUNT = 0
  /\ _SLACK_COOLDOWN_UNTIL = now + SLACK_FAILURE_COOLDOWN_MS

\* C2: while now is before the cooldown deadline, a call of sendToSlackCritical
\* returns at once: the notifier is not invoked, no file is written, no timer
\* is added, the retry counters and the three breaker fields stay as they are.
C2_SkippedInCooldown ==
  [][\A e \in Entries : (CallStep(e) /\ now < _SLACK_COOLDOWN_UNTIL) =>
        /\ slackPc'[e] = "skipped"
        /\ slackCalls' = slackCalls
        /\ slackFallbacks' = slackFallbacks
        /\ files' = files
        /\ slackTimers' \subseteq slackTimers
        /\ slackRetryAttempts' = slackRetryAttempts
        /\ _SLACK_FAILURE_COUNT' = _SLACK_FAILURE_COUNT
        /\ _SLACK_COOLDOWN_UNTIL' = _SLACK_COOLDOWN_UNTIL
        /\ _SLACK_FALLBACK_COOLDOWN_UNTIL' = _SLACK_FALLBACK_COOLDOWN_UNTIL]_vars

C2_Witness == \E e \in Entries : slackPc[e] = "skipped" /\ now < _SLACK_COOLDOWN_UNTIL

\* C3: a delivery that succeeds, in whatever state, sets the failure counter
\* to 0 and changes neither the cooldown deadline nor the fallback-suppression
\* deadline.
C3_SuccessResetsCounter ==
  [][\A e \in Entries : SuccessStep(e) =>
        /\ _SLACK_FAILURE_COUNT' = 0
        /\ _SLACK_COOLDOWN_UNTIL' = _SLACK_COOLDOWN_UNTIL
        /\ _SLACK_FALLBACK_COOLDOWN_UNTIL' = _SLACK_FALLBACK_COOLDOWN_UNTIL]_vars

\* A delivery in flight when the breaker opened succeeds while it is open.
C3_Witness ==
  /\ lastStep.op = "SlackSucceeds"
  /\ now < _SLACK_COOLDOWN_UNTIL
  /\ _SLACK_FAILURE_COUNT = 0

PermissionCodes == {"EACCES", "EPERM"}

\* The files under the three write-error roots.
FallbackArtifacts == {p \in DOMAIN files : p.root \in FallbackRoots}

\* The step in which the primary (fallback) write of storage promise i ends.
PrimaryEnds(i) ==
  /\ tasks[i].status = "primary"
  /\ lastStep'.op = "TaskPrimarySettles"
  /\ lastStep'.e = i
FallbackEnds(i) ==
  /\ tasks[i].status = "fallback"
  /\ lastStep'.op = "TaskFallbackSettles"
  /\ lastStep'.e = i

\* C4: when the primary write of writeToStorage or writeCriticalLogFile ends
\* with EACCES or EPERM, the call is fulfilled in that step and no file under
\* a write-error root is created; when its write-error fallback write ends
\* with EACCES or EPERM, the call is fulfilled as well.
C4_PermissionSilent ==
  [][\A i \in DOMAIN tasks : tasks[i].kind \in {"storage", "critical"} =>
        /\ (PrimaryEnds(i) /\ tasks'[i].primaryErr \in PermissionCodes) =>
              /\ tasks'[i].status = "fulfilled"
              /\ FallbackArtifacts' = FallbackArtifacts
        /\ (FallbackEnds(i) /\ tasks'[i].fallbackErr \in PermissionCodes) =>
              tasks'[i].status = "fulfilled"]_vars

\* The fallback write of the primary record was refused, then the primary
\* write of the critical replica was refused.
C4_Witness ==
  /\ lastStep.op = "TaskPrimarySettles"
  /\ Len(tasks) = 2
  /\ tasks[1].kind = "storage"
  /\ tasks[1].fallbackErr = "EACCES"
  /\ tasks[1].status = "fulfilled"
  /\ tasks[2].kind = "critical"
  /\ tasks[2].primaryErr = "EPERM"
  /\ tasks[2].status = "fulfilled"
  /\ FallbackArtifacts = {}

\* C5: no call of writeLog or writeLogs with valid arguments ends with an
\* exception caused by the file system or the notifier.
C5_NoEnvironmentalException == callError # "io"

\* The files that hold the content of entry e.
RecordsOf(e) ==
  {p \in DOMAIN files :
     files[p].content.kind \in {"entry", "missing", "slack"} /\ files[p].content.ev = e}

\* Entry e was dropped by the permission policy: one of its writes ended with
\* a permission error.
DroppedByPermission(e) ==
  \E i \in DOMAIN tasks :
    /\ tasks[i].e = e
    /\ (tasks[i].primaryErr \in PermissionCodes \/ tasks[i].fallbackErr \in PermissionCodes)

\* C6: when writeLog or writeLogs has returned, every entry it built has a
\* persisted record with the entry's content, unless a permission error
\* dropped it.
C6_EveryEventPersisted ==
  (callApi \in {"writeLog", "writeLogs"} /\ callPc = "returned") =>
     \A e \in Range(callEntries) : RecordsOf(e) # {} \/ DroppedByPermission(e)

\* The entries of the call whose path was not resolved or one of whose
\* writes failed.
FailedEntries ==
  {e \in Range(callEntries) :
     \/ ~entry[e].complete
     \/ \E i \in DOMAIN tasks : tasks[i].e = e /\ tasks[i].primaryErr # "none"}

\* C7: when writeLogs has returned and exactly one entry of the batch was
\* unresolvable or failed to be written, the record of every other entry is
\* in storage under the log root.
C7_OthersPersisted ==
  (callApi = "writeLogs" /\ callPc = "returned" /\ Cardinality(FailedEntries) = 1) =>
     \A e \in Range(callEntries) \ FailedEntries :
        \E p \in RecordsOf(e) : p.root = LOG_ROOT /\ files[p].content.kind = "entry"

\* C8: a storage call whose primary write failed with a non-permission error
\* and whose fallback write failed with a non-permission error rejects.
C8_FallbackFailurePropagates ==
  \A i \in DOMAIN tasks :
    (/\ tasks[i].kind \in {"storage", "critical", "batch"}
     /\ tasks[i].primaryErr \notin {"none"} \cup PermissionCodes
     /\ tasks[i].fallbackErr \notin {"none"} \cup PermissionCodes
     /\ Settled(tasks[i]))
    => tasks[i].status = "rejected"

\* The write-error records that name the file storage promise t tried to write.
WriteErrorRecords(t) ==
  {p \in DOMAIN files :
     files[p].content.kind = "write_error" /\ files[p].content.attemptedPath = t.full}

\* A storage call that has ended after its primary write failed with a
\* non-permission error.
PrimaryFailed(t) ==
  /\ t.kind \in {"storage", "critical", "batch"}
  /\ Settled(t)
  /\ t.primaryErr \notin {"none"} \cup PermissionCodes

\* The path without its suffixes mirrors the path of the primary write.
Mirrors(p, t) == p.sub = t.safeRel.sub /\ p.base = t.safeRel.base /\ p.crit = t.safeRel.crit

\* C9 as stated: after a primary write failed with a non-permission error
\* there is exactly one write-error record, under a write-error root at the
\* mirrored path, with the error code, the attempted path and the entry count.
C9_Original ==
  \A i \in DOMAIN tasks : PrimaryFailed(tasks[i]) =>
    /\ Cardinality(WriteErrorRecords(tasks[i])) = 1
    /\ \A p \in WriteErrorRecords(tasks[i]) :
         /\ p.root \in FallbackRoots
         /\ Mirrors(p, tasks[i])
         /\ files[p].content.errorCode = tasks[i].errorCode
         /\ files[p].content.entryCount = tasks[i].entryCount

\* The write-error root and error code of each kind of storage call.
ExpectedRoot(t) ==
  IF t.kind = "batch" THEN BATCH_WRITE_ERRORS_ROOT
  ELSE IF t.kind = "critical" /\ ~criticalWithinRoot THEN CRITICAL_WRITE_ERRORS_ROOT
  ELSE WRITE_ERRORS_ROOT
ExpectedCode(t) ==
  IF t.kind = "batch" THEN "E_BATCH_WRITE_FAIL"
  ELSE IF t.kind = "critical" /\ ~criticalWithinRoot THEN "E_WRITE_FAIL_CRITICAL"
  ELSE "E_WRITE_FAIL"

\* C9 amended: when the primary write ends with a non-permission error no
\* write-error record exists yet and one fallback write follows.  If that
\* write succeeds, it writes exactly one file: a write-error record at the
\* mirrored path with a time stamp appended, under write_errors
\* (critical_write_errors for a critical root outside the log root,
\* batch_write_errors for a batch), with the error code, the attempted path
\* and, for a batch, the entry count.  If it fails, no file is written.
\* Either way the call ends there.
C9_OneFallbackRecord ==
  [][\A i \in DOMAIN tasks : tasks[i].kind \in {"storage", "critical", "batch"} =>
        /\ (PrimaryEnds(i) /\ tasks'[i].primaryErr \notin {"none"} \cup PermissionCodes) =>
              /\ tasks'[i].status = "fallback"
              /\ FallbackArtifacts' = FallbackArtifacts
        /\ FallbackEnds(i) =>
              /\ Settled(tasks'[i])
              /\ IF tasks'[i].fallbackErr = "none"
                 THEN \E p \in DOMAIN files' :
                        /\ DOMAIN files' = DOMAIN files \cup {p}
                        /\ \A q \in DOMAIN files \ {p} : files'[q] = files[q]
                        /\ p.root = ExpectedRoot(tasks[i])
                        /\ Mirrors(p, tasks[i])
                        /\ Len(p.suffix) = Len(tasks[i].safeRel.suffix) + 1
                        /\ p.suffix[Len(p.suffix)][1] = "ts"
                        /\ files'[p].content =
                             [kind |-> "write_error", ev |-> 0,
                              attemptedPath |-> tasks[i].full,
                              errorCode |-> ExpectedCode(tasks[i]),
                              entryCount |-> tasks[i].entryCount]
                 ELSE files' = files]_vars

\* A batch file whose write failed on a full disk has its write-error record.
C9_Witness ==
  \E i \in DOMAIN tasks :
    /\ tasks[i].kind = "batch"
    /\ PrimaryFailed(tasks[i])
    /\ tasks[i].fbWrites = 1
    /\ \E p \in WriteErrorRecords(tasks[i]) :
         /\ p.root = BATCH_WRITE_ERRORS_ROOT
         /\ files[p].content.entryCount = tasks[i].entryCount

\* C10: the path cache and the template-resolution cache never hold more than
\* CACHE_SIZE_LIMIT keys, and once CACHE_SIZE_LIMIT or more distinct keys have
\* been put into one of them it holds exactly CACHE_SIZE_LIMIT.
C10_CachesBounded ==
  /\ Len(_PATH_CACHE) <= CACHE_SIZE_LIMIT
  /\ Len(_RESOLVE_CACHE) <= CACHE_SIZE_LIMIT
  /\ Cardinality(pathKeysSeen) >= CACHE_SIZE_LIMIT => Len(_PATH_CACHE) = CACHE_SIZE_LIMIT
  /\ Cardinality(resolveKeysSeen) >= CACHE_SIZE_LIMIT => Len(_RESOLVE_CACHE) = CACHE_SIZE_LIMIT

\* Both caches have taken MaxExtraKeys keys beyond their capacity.
C10_Witness ==
  /\ Cardinality(pathKeysSeen) = CACHE_SIZE_LIMIT + MaxExtraKeys
  /\ Cardinality(resolveKeysSeen) = CACHE_SIZE_LIMIT + MaxExtraKeys
  /\ Len(_PATH_CACHE) = CACHE_SIZE_LIMIT
  /\ Len(_RESOLVE_CACHE) = CACHE_SIZE_LIMIT

\* C11: the route cache never holds more than CACHE_SIZE_LIMIT keys.
C11_RouteCacheBounded == Len(_ROUTE_CACHE) <= CACHE_SIZE_LIMIT

\* The step in which the primary write of storage promise i succeeds.
PrimaryWrites(i) == PrimaryEnds(i) /\ tasks'[i].primaryErr = "none"

\* The step leaves every file but those at the paths in ps as it was.
OnlyTouches(ps) ==
  /\ DOMAIN files \ ps \subseteq DOMAIN files'
  /\ DOMAIN files' \ ps \subseteq DOMAIN files
  /\ \A q \in DOMAIN files \ ps : files'[q] = files[q]

C13_RetriesCapped ==
  \A e \in Entries :
    /\ slackRetryAttempts[e] <= _SLACK_RETRY_LIMIT
    /\ slackCalls[e] <= slackRetryAttempts[e] + 1
    /\ slackCalls[e] <= _SLACK_RETRY_LIMIT + 1
    /\ Cardinality({t \in slackTimers : t.entry = e}) <= 1

\* The notifier failed three times for one entry and no retry is left.
C13_Witness ==
  \E e \in Entries :
    /\ slackCalls[e] = _SLACK_RETRY_LIMIT + 1
    /\ slackRetryAttempts[e] = _SLACK_RETRY_LIMIT
    /\ slackPc[e] = "fellback"
    /\ \A t \in slackTimers : t.entry # e

\* The step in which a failed delivery of entry e leaves sendToSlackCritical:
\* by the suppression return, after the fallback write, or with its error.
FailedDeliveryEnds(e) ==
  /\ slackPc[e] \in {"sending", "fallback"}
  /\ slackPc'[e] \in {"suppressed", "fellback", "threw"}

\* C14: a failed delivery of an entry whose retry counter is below
\* _SLACK_RETRY_LIMIT ends with exactly one new retry timer for the entry and
\* the counter one higher, whether or not a Slack-fallback record was written.
C14_FailureSchedulesRetry ==
  [][\A e \in Entries :
        (FailedDeliveryEnds(e) /\ slackRetryAttempts[e] < _SLACK_RETRY_LIMIT) =>
           /\ slackRetryAttempts'[e] = slackRetryAttempts[e] + 1
           /\ Cardinality({t \in slackTimers' \ slackTimers : t.entry = e}) = 1]_vars

\* The Slack-fallback record of entry e.
SlackFallbackFile(e) ==
  [content |-> Content("slack", e, NoPath, "E_SLACK_FAIL", 0), size |-> entry[e].size]

\* The step in which Slack.critical rejects for entry e decides on the record:
\* inside the suppression window nothing is written and the delivery ends,
\* outside it the fallback write is started; the deadline is left alone.
C15_FailureDecides(e) ==
  FailureStep(e) =>
    /\ (now < _SLACK_FALLBACK_COOLDOWN_UNTIL) <=> (slackPc'[e] = "suppressed")
    /\ files' = files
    /\ slackFallbacks' = slackFallbacks
    /\ _SLACK_FALLBACK_COOLDOWN_UNTIL' = _SLACK_FALLBACK_COOLDOWN_UNTIL

\* The fallback write of entry e put one record of e in the Slack-fallback
\* store and set the suppression deadline 60 s ahead.
C15_OneRecord(e) ==
  LET p == slackFallbackPath[e]
  IN /\ p.root = FALLBACK_SLACK_DIR
     /\ p \in DOMAIN files'
     /\ files'[p] = SlackFallbackFile(e)
     /\ OnlyTouches({p, _appendTimestampToPath(p, now)})
     /\ slackFallbacks' = [slackFallbacks EXCEPT ![e] = @ + 1]
     /\ _SLACK_FALLBACK_COOLDOWN_UNTIL' = now + SLACK_FALLBACK_COOLDOWN_MS

\* C15 as stated: every failed delivery outside the suppression window ends
\* with one record of the entry in the Slack-fallback store and the deadline
\* 60 s ahead; inside the window none is written.
C15_Original ==
  [][\A e \in Entries :
        /\ C15_FailureDecides(e)
        /\ (slackPc[e] = "fallback" /\ slackPc'[e] \in {"fellback", "threw"}) =>
              C15_OneRecord(e)]_vars

\* C15: a failed delivery inside the suppression window writes nothing; outside
\* it the fallback write is started, and when that write succeeds exactly one
\* record of the entry is in the Slack-fallback store and the deadline is
\* 60 s ahead; when the write fails no record is added and the deadline stays.
C15_FallbackUnlessSuppressed ==
  [][\A e \in Entries :
        /\ C15_FailureDecides(e)
        /\ (slackPc[e] = "fallback" /\ slackPc'[e] = "fellback") => C15_OneRecord(e)
        /\ (slackPc[e] = "fallback" /\ slackPc'[e] = "threw") =>
              /\ slackFallbacks' = slackFallbacks
              /\ _SLACK_FALLBACK_COOLDOWN_UNTIL' = _SLACK_FALLBACK_COOLDOWN_UNTIL
              /\ \A q \in DOMAIN files' :
                    files'[q] = SlackFallbackFile(e) =>
                       \E r \in DOMAIN files : files[r] = SlackFallbackFile(e)]_vars

\* One failure was answered with a record, a later one inside the window was
\* suppressed, and a third one, after the window, wrote again.
C15_Witness ==
  \E e1, e2 \in Entries :
    /\ e1 # e2
    /\ slackFallbacks[e1] = 2
    /\ slackPc[e1] = "fellback"
    /\ slackPc[e2] = "suppressed"
    /\ slackFallbacks[e2] = 0
    /\ _SLACK_FALLBACK_COOLDOWN_UNTIL = now + SLACK_FALLBACK_COOLDOWN_MS

\* The step in which writeLog or writeLogs (not a retry timer) hands entry e
\* to sendToSlackCritical and the notifier is invoked.
OfferedByWrite(e) ==
  /\ lastStep'.op \in {"WriteLogAfterCritical", "WriteLogsAfterAll", "AfterSlack"}
  /\ slackCalls'[e] = slackCalls[e] + 1

\* C16: writeLog and writeLogs invoke the notifier for a critical entry only
\* when the primary write of that entry succeeded; an entry whose primary write
\* failed or was dropped is not offered.
C16_OfferedAfterPersistence ==
  [][\A e \in Entries :
        OfferedByWrite(e) =>
           \A i \in DOMAIN tasks :
              (tasks[i].kind = "storage" /\ tasks[i].e = e) =>
                 tasks[i].primaryErr = "none"]_vars

\* The path is absolute, has a ".." segment somewhere or has a segment made
\* of dots only.
UnsafePath(raw) ==
  \/ raw.absolute
  \/ \E i \in DOMAIN raw.segs : raw.segs[i] = ".."
  \/ \E i \in DOMAIN raw.segs : raw.segs[i] \in {".", "..", "..."}

\* C17: writeToStorage called with an absolute path, a path with a ".."
\* segment anywhere or a path with a dot-only segment throws at once: no write
\* is started and the file system is as before.
C17_RejectsUnsafePaths ==
  [][(/\ calls' = calls + 1
      /\ lastStep'.op = "StartWriteToStoragePath"
      /\ UnsafePath(lastStep'.relativePath)) =>
        /\ callPc' = "threw"
        /\ tasks' = <<>>
        /\ files' = files]_vars

\* Every write started for the batch has ended, by success or by failure.
BatchWritesEnded == \A i \in DOMAIN tasks : tasks[i].status \in {"fulfilled", "rejected"}

\* C18: in writeLogs an entry is handed to sendToSlackCritical only when every
\* write started for the batch (primary, critical replica, missing-path
\* artifact) has ended, and writeLogs leaves its wait for the writes only then,
\* without an error and with the first critical entry of the batch handed to
\* sendToSlackCritical, whether writes failed or not.
C18_NotifiesAfterAllSettled ==
  [][callApi = "writeLogs" =>
       /\ \A e \in Entries :
             (slackPc[e] = "none" /\ slackPc'[e] # "none") => BatchWritesEnded
       /\ (callPc = "awaitAll" /\ callPc' # "awaitAll") =>
             /\ BatchWritesEnded
             /\ tasks' = tasks
             /\ IF slackEntries = <<>>
                THEN callPc' = "returned"
                ELSE /\ callPc' = "awaitSlack"
                     /\ slackPc'[Head(slackEntries)] \in {"sending", "skipped"}]_vars

\* A batch with a primary, a critical replica and a missing-path artifact, one
\* of which failed, has reached its notification.
C18_Witness ==
  /\ callApi = "writeLogs"
  /\ \A k \in {"storage", "critical", "missing"} : \E i \in DOMAIN tasks : tasks[i].kind = k
  /\ \E i \in DOMAIN tasks : tasks[i].primaryErr # "none"
  /\ BatchWritesEnded
  /\ \E e \in Entries : slackCalls[e] = 1

\* C19: in writeLogs, while a critical-replica write of the batch has been
\* started (it is in storagePromises), every primary write of the batch has
\* ended.
C19_CriticalAfterPrimaries ==
  callApi = "writeLogs" =>
    ((\E i \in DOMAIN tasks : tasks[i].kind = "critical") =>
       \A j \in DOMAIN tasks :
          tasks[j].kind = "storage" => tasks[j].status \in {"fulfilled", "rejected"})

\* The pair (sanitized flag, missing-placeholder signature) of entry e, the
\* flag trimmed as SafeUtils.sanitizeString trims it.
MissingPair(e) ==
  <<IF entry'[e].flag = "f1 " THEN "f1" ELSE entry'[e].flag, "key">>

\* The entries of the batch whose path could not be resolved.
Unresolved == {callEntries'[k] : k \in {j \in DOMAIN callEntries' : ~entry'[callEntries'[j]].complete}}

\* The step in which writeLogs starts the writes of a batch: every pair among
\* the unresolved entries has exactly one missing-path artifact write, the
\* writes go to different files under the missing-path root, and each carries
\* an unresolved entry of the batch.
C20_OneWritePerPair ==
  (calls' = calls + 1 /\ callPc' = "awaitAll") =>
    LET missing == {i \in DOMAIN tasks' : tasks'[i].kind = "missing"}
    IN /\ \A e \in Unresolved :
             Cardinality({i \in missing : MissingPair(tasks'[i].e) = MissingPair(e)}) = 1
       /\ \A i \in missing :
             /\ tasks'[i].e \in Unresolved
             /\ tasks'[i].full.root = FALLBACK_MISSING_PATH_DIR
       /\ \A i, j \in missing : tasks'[i].full = tasks'[j].full => i = j

\* The artifact of missing-path write i is in its file and no other file changed.
C20_ArtifactWritten(i) ==
  /\ tasks[i].full \in DOMAIN files'
  /\ files'[tasks[i].full] = TaskFile(tasks[i])
  /\ OnlyTouches({tasks[i].full, _appendTimestampToPath(tasks[i].full, now)})

\* C20 as stated: within one writeLogs call every pair (sanitized flag,
\* missing-placeholder signature) among the unresolved entries ends with
\* exactly one missing-path artifact of its own.
C20_Original ==
  [][callApi' = "writeLogs" =>
       /\ C20_OneWritePerPair
       /\ \A i \in DOMAIN tasks :
             (tasks[i].kind = "missing" /\ PrimaryEnds(i)) => C20_ArtifactWritten(i)]_vars

\* C20: within one writeLogs call every pair (sanitized flag,
\* missing-placeholder signature) among the unresolved entries gets exactly one
\* missing-path artifact write of its own; a write that succeeds leaves exactly
\* one artifact, a write that fails leaves none.
C20_OneArtifactPerPair ==
  [][callApi' = "writeLogs" =>
       /\ C20_OneWritePerPair
       /\ \A i \in DOMAIN tasks :
             (tasks[i].kind = "missing" /\ PrimaryEnds(i)) =>
                IF tasks'[i].status = "fulfilled"
                THEN C20_ArtifactWritten(i)
                ELSE /\ tasks'[i].status = "rejected"
                     /\ \A q \in DOMAIN files' : files'[q] # TaskFile(tasks[i])]_vars

\* A batch of three unresolved entries, two of one pair and one of another,
\* has returned with two artifacts.
C20_Witness ==
  /\ callApi = "writeLogs"
  /\ callPc = "returned"
  /\ Len(callEntries) = 3
  /\ {entry[callEntries[k]].flag : k \in DOMAIN callEntries} = {"f1", "f1 ", "f2"}
  /\ \A k \in DOMAIN callEntries : ~entry[callEntries[k]].complete
  /\ Len(tasks) = 2
  /\ Cardinality({p \in DOMAIN files : p.root = FALLBACK_MISSING_PATH_DIR}) = 2

\* A flag trimmed and in lower case, spelled out for the flags in use.
TrimmedLower ==
  [f \in LookupFlags |->
     CASE f \in {"f1", "F1", "f1 "} -> "f1"
       [] f \in {"x9", "X9 "} -> "x9"
       [] OTHER -> ""]

\* The step is a call getRouteByFlag(f).
LookupStep(f) ==
  /\ lastStep'.op = "GetRoute"
  /\ lastStep'.flag = f

\* C21: a call getRouteByFlag(f) whose flag, trimmed and in lower case, has
\* been looked up before returns the route stored by that earlier call and is
\* served from the cache, which it leaves as it is; any other call stores the
\* route it returns; a stored route never changes.  So two calls with flags
\* that differ at most in case and surrounding white space return identical
\* routes.
C21_SameRouteFromCache ==
  [][\A f \in LookupFlags :
        LookupStep(f) =>
          LET stored == {i \in DOMAIN _ROUTE_CACHE : _ROUTE_CACHE[i].key = TrimmedLower[f]}
          IN /\ \A i \in DOMAIN _ROUTE_CACHE : _ROUTE_CACHE'[i] = _ROUTE_CACHE[i]
             /\ stored # {} =>
                  /\ lastStep'.hit
                  /\ \A i \in stored : lastStep'.route = _ROUTE_CACHE[i].route
                  /\ _ROUTE_CACHE' = _ROUTE_CACHE
             /\ stored = {} =>
                  /\ ~lastStep'.hit
                  /\ _ROUTE_CACHE' = Append(_ROUTE_CACHE,
                       [key |-> TrimmedLower[f], route |-> lastStep'.route])
             /\ (lastStep.op = "GetRoute" /\ TrimmedLower[lastStep.flag] = TrimmedLower[f]) =>
                  lastStep'.route = lastStep.route /\ lastStep'.hit]_vars

\* A flag was looked up in one spelling and then, from the cache, in another.
C21_Witness ==
  /\ lastStep.op = "GetRoute"
  /\ lastStep.flag = "F1"
  /\ lastStep.hit
  /\ lastStep.route.category = "configured"
  /\ \E i \in DOMAIN _ROUTE_CACHE : _ROUTE_CACHE[i].key = "x9"

\* The flags of the lookup scenario without a configured route, and the
\* path segment made of each.
Unconfigured == {f \in LookupFlags : TrimmedLower[f] # "f1"}

SanitizedFlag ==
  [f \in Unconfigured |->
     CASE f = "x9" -> "x9"
       [] f = "X9 " -> "X9"
       [] OTHER -> "missing_route"]

\* C22: no call of getRouteByFlag raises, and every call for a flag without a
\* configured route returns a route of category unknown, not critical, with
\* the path missingLogRoutes/<sanitized flag>/<day of the call>.log.
C22_FallbackRouteOfToday ==
  [][lastStep'.op = "GetRoute" =>
       /\ ~lastStep'.threw
       /\ lastStep'.flag \in Unconfigured =>
            /\ lastStep'.route.category = "unknown"
            /\ ~lastStep'.route.critical
            /\ lastStep'.route.path =
                 <<"missingLogRoutes", SanitizedFlag[lastStep'.flag], now' \div 86400000>>]_vars

\* The step decrypts the entry whose field secret was just encrypted under a
\* valid key.
DecryptsEncrypted ==
  /\ lastStep'.op = "decryptEntry"
  /\ lastStep.op = "_applyEncryption"
  /\ "secret" \in lastStep.targets
  /\ LOG_ENCRYPTION_KEY = "valid"

\* C23: with a valid key, decryptEntry of an entry whose field secret was
\* encrypted by _applyEncryption returns {secret: v} for the string v the
\* field held.
C23_EncryptDecryptRoundTrip ==
  [][DecryptsEncrypted =>
       lastStep'.result = [kind |-> "object", secret |-> cryptEntry.plain]]_vars

\* The step is a call of _applyEncryption with targets.
EncryptsWithTargets == lastStep'.op = "_applyEncryption" /\ lastStep'.targets # {}

\* C24: when an entry has encryption targets and the key is absent or invalid,
\* _applyEncryption returns normally with the target field left in plaintext
\* and records at least one error, on the first such call and on every later
\* one.
C24_MissingKeySkipsEncryption ==
  [][(EncryptsWithTargets /\ LOG_ENCRYPTION_KEY \in {"absent", "invalid"}) =>
       /\ ~lastStep'.threw
       /\ cryptEntry'.secret = [kind |-> "string", value |-> cryptEntry'.plain]
       /\ encryptionErrors' > encryptionErrors]_vars

\* Encryption was skipped and recorded three times under an invalid key.
C24_Witness ==
  /\ LOG_ENCRYPTION_KEY = "invalid"
  /\ lastStep.op = "_applyEncryption"
  /\ "secret" \in lastStep.targets
  /\ encryptionErrors = 3
  /\ cryptEntry.secret.kind = "string"

\* The step is a call of decryptEntry on an entry that has data, made while
\* the configured key is absent or does not decode to 32 bytes.
DecryptsWithoutKey ==
  /\ lastStep'.op = "decryptEntry"
  /\ cryptEntry.secret.kind # "none"
  /\ LOG_ENCRYPTION_KEY \in {"absent", "invalid"}

\* C25: with the key absent or invalid, every call of decryptEntry raises a
\* configuration error to its caller instead of returning a result.
C25_DecryptSurfacesKeyError ==
  [][DecryptsWithoutKey => lastStep'.threw]_vars

\* The step is a call of a public method while logging is disabled.
DisabledCall == lastStep'.op = "PublicCall" /\ ~LOGGING_ENABLED

\* C26: with LOGGING_ENABLED false, each of the four public methods returns,
\* for every argument, without raising or recording an error and without
\* touching the file system, the notifier, the three caches or the circuit
\* state.
C26_DisabledIsNoOp ==
  [][DisabledCall =>
       /\ ~lastStep'.threw
       /\ lastStep'.errors = 0
       /\ UNCHANGED <<files, slackVars, breakerVars, entryErrors,
                      _PATH_CACHE, _RESOLVE_CACHE, _ROUTE_CACHE>>]_vars

\* C27: for every maxCacheSize >= 1, after any sequence of _requireModuleOnce
\* calls, failing ones included, the module cache holds at most maxCacheSize
\* entries.
C27_ModuleCacheBounded ==
  options.maxCacheSize >= 1 => Len(loadedModuleCache) <= options.maxCacheSize

\* A miss on a full cache evicted an entry, loaded the module and left the
\* cache full again.
C27_Witness ==
  /\ lastStep.op = "_requireModuleOnce"
  /\ lastStep.evicted
  /\ ~lastStep.threw
  /\ Len(loadedModuleCache) = options.maxCacheSize
  /\ options.maxCacheSize > 1

\* C28: in every state reached through _requireModuleOnce calls, the access
\* order and the module cache hold the same set of paths, each once.
C28_AccessOrderMatchesCache ==
  /\ Range(cacheAccessOrder) = Range(loadedModuleCache)
  /\ Len(cacheAccessOrder) = Len(loadedModuleCache)

\* A load threw after its eviction and entries remain in the cache, in an
\* order that differs from the order of access.
C28_Witness ==
  /\ lastStep.op = "_requireModuleOnce"
  /\ lastStep.evicted
  /\ lastStep.threw
  /\ loadedModuleCache # << >>

\* The step is a call of _requireUtilityIntoCache.
UtilityStep == lastStep'.op = "_requireUtilityIntoCache"

\* C29: with maxUtilityCache utilities loaded, loading one more throws an
\* error whose message holds 'Utility cache limit reached' and leaves the
\* loaded names and the store as they were; requesting a loaded utility does
\* not throw and changes nothing; the number of loaded utilities never
\* exceeds maxUtilityCache.
C29_UtilityCacheLimit ==
  [][/\ (/\ UtilityStep
         /\ Cardinality(loadedUtilityNames) = options.maxUtilityCache
         /\ lastStep'.name \in UtilityNames \ loadedUtilityNames)
        => /\ lastStep'.threw
           /\ \E i \in DOMAIN lastStep'.message :
                lastStep'.message[i] = "Utility cache limit reached"
           /\ UNCHANGED <<loadedUtilityNames, loadedCoreUtilities>>
     /\ (UtilityStep /\ lastStep'.name \in loadedUtilityNames)
        => /\ ~lastStep'.threw
           /\ UNCHANGED <<loaderVars>>
     /\ Cardinality(loadedUtilityNames') <= options.maxUtilityCache]_vars

\* A third utility was refused by a loader that holds its two.
C29_Witness ==
  /\ lastStep.op = "_requireUtilityIntoCache"
  /\ lastStep.threw
  /\ lastStep.message = <<"Failed to load utility", "Utility cache limit reached">>
  /\ options.maxUtilityCache = 2
  /\ Cardinality(loadedUtilityNames) = 2

\* The step is a call of getCoreUtilities or loadCoreUtilities that returns.
ReturnsUtilities ==
  /\ lastStep'.op \in {"getCoreUtilities", "loadCoreUtilities"}
  /\ ~lastStep'.threw

\* C30: for both values of deepCloneUtilities, getCoreUtilities and
\* loadCoreUtilities return an object that is not the internal store, no
\* write to the returned object changes the store, getCoreUtilities leaves
\* the store as it was, and the store takes the utilities loaded afterwards.
C30_ReturnedIsolatedFromStore ==
  [][/\ ReturnsUtilities =>
          /\ returned'.kind = "copy"
          /\ ~loadedCoreUtilities'.frozen
     /\ lastStep'.op = "getCoreUtilities" =>
          loadedCoreUtilities' = loadedCoreUtilities
     /\ lastStep'.op \in {"SetNestedOfReturned", "SetPropertyOfReturned"} =>
          loadedCoreUtilities' = loadedCoreUtilities
     /\ (UtilityStep /\ lastStep'.threw) =>
          lastStep'.message # <<"Failed to load utility", "Cannot add property">>]_vars

\* The instants of the model's clock.
Instants == {1 + k * TickMs : k \in 0..(MaxNow \div TickMs)}

\* The step hands an entry to sendToSlackCritical after the breaker has
\* opened and its deadline has been reached.
OfferedAfterCooldown ==
  /\ lastStep'.op \in {"OfferCritical", "SlackRetryFires"}
  /\ _SLACK_COOLDOWN_UNTIL > 0
  /\ now >= _SLACK_COOLDOWN_UNTIL

\* C31: the open state is left by time alone: every cooldown deadline is
\* reached by the clock, and an entry handed to sendToSlackCritical once the
\* deadline is reached is attempted, the notifier being invoked.
C31_OpenLeftByTime ==
  /\ [][OfferedAfterCooldown =>
          /\ slackPc'[lastStep'.e] = "sending"
          /\ slackCalls'[lastStep'.e] = slackCalls[lastStep'.e] + 1]_vars
  /\ \A d \in Instants : (_SLACK_COOLDOWN_UNTIL = d) ~> (now >= d)

\* The breaker opened, its deadline passed, and the entry offered next is
\* being delivered.
C31_Witness ==
  /\ lastStep.op \in {"OfferCritical", "SlackRetryFires"}
  /\ _SLACK_COOLDOWN_UNTIL > 0
  /\ now >= _SLACK_COOLDOWN_UNTIL
  /\ slackPc[lastStep.e] = "sending"

\* The step is a direct call of _writeFileWithRetry; the environment fails
\* its attempt a.
RetryStep == lastStep'.op = "WriteFileCall"

AttemptFails(a) == lastStep'.envs[a].at \in {"rotate", "write"}

\* C32: _writeFileWithRetry ends after at most 2 attempts: it returns at the
\* first attempt that succeeds, waits one backoff between the attempts and
\* none after the last, and when both fail it throws the error of the second.
C32_TwoAttemptsAtMost ==
  [][RetryStep =>
       /\ lastStep'.attempts \in 1..2
       /\ ~AttemptFails(1) =>
            /\ lastStep'.attempts = 1
            /\ lastStep'.err = "none"
            /\ lastStep'.backoffs = << >>
       /\ (AttemptFails(1) /\ ~AttemptFails(2)) =>
            /\ lastStep'.attempts = 2
            /\ lastStep'.err = "none"
            /\ lastStep'.backoffs = <<100>>
       /\ (AttemptFails(1) /\ AttemptFails(2)) =>
            /\ lastStep'.attempts = 2
            /\ lastStep'.err = lastStep'.envs[2].code
            /\ lastStep'.backoffs = <<100>>]_vars

\* Both attempts failed, with different errors, and the second was thrown.
C32_Witness ==
  /\ lastStep.op = "WriteFileCall"
  /\ lastStep.envs[1].at = "write"
  /\ lastStep.envs[2].at = "write"
  /\ lastStep.envs[1].code # lastStep.envs[2].code
  /\ lastStep.err = lastStep.envs[2].code

\* The step is a direct call of _writeFileWithRetry on a file due for
\* rotation that a concurrent writer renames under the first attempt.
VanishedInRotation ==
  /\ RetryStep
  /\ lastStep'.envs[1].at = "vanish"
  /\ RetryPath \in DOMAIN files
  /\ files[RetryPath].size >= MAX_LOG_FILE_SIZE_BYTES

\* C33: when the file vanishes between the size check and the rename, the
\* rotation reports no error and the payload is written within the same
\* attempt: no retry, no backoff, no throw for a fallback write to answer.
C33_VanishedFileIsNoError ==
  [][VanishedInRotation =>
       /\ lastStep'.err = "none"
       /\ lastStep'.attempts = 1
       /\ lastStep'.backoffs = << >>
       /\ files'[RetryPath] = lastStep'.file
       /\ \A p \in DOMAIN files' : p.root = LOG_ROOT]_vars

\* The second call found the file of the first renamed under its hands and
\* wrote its payload.
C33_Witness ==
  /\ lastStep.op = "WriteFileCall"
  /\ lastStep.envs[1].at = "vanish"
  /\ lastStep.e = 2
  /\ \E p \in DOMAIN files : p # RetryPath /\ files[p].content.ev = 1
  /\ files[RetryPath].content.ev = 2

\* What a lookup of key may do to a cache: a hit leaves it as it is, keys in
\* their order; a miss appends the key and removes nothing but the keys
\* inserted earliest.
OldestEvicted(before, after, key) ==
  IF key \in Range(before)
  THEN after = before
  ELSE LET all == Append(before, key)
           dropped == Len(all) - Len(after)
       IN /\ dropped >= 0
          /\ dropped = 0 \/ Len(after) = CACHE_SIZE_LIMIT
          /\ after = SubSeq(all, dropped + 1, Len(all))

\* C34: when a cache trimmed by _trimCache overflows, exactly the keys
\* inserted earliest leave it, and a hit in the path cache or the
\* template-resolution cache changes neither the keys nor their order, hence
\* not the key evicted next.
C34_EvictsInInsertionOrder ==
  [][/\ lastStep'.op = "ResolvePathCall" =>
          OldestEvicted(_PATH_CACHE, _PATH_CACHE', <<LOG_ROOT, CachePath(lastStep'.n)>>)
     /\ (lastStep'.op = "ResolvePatternCall" /\ ~lastStep'.missing) =>
          OldestEvicted(_RESOLVE_CACHE, _RESOLVE_CACHE', <<"f1", lastStep'.n>>)
     /\ (lastStep'.op = "ResolvePatternCall" /\ lastStep'.missing) =>
          _RESOLVE_CACHE' = _RESOLVE_CACHE]_vars

\* The path cache overflowed: its first key is gone, the second is now the
\* oldest, and the key asked for last is the newest.
C34_Witness ==
  /\ lastStep.op = "ResolvePathCall"
  /\ Len(_PATH_CACHE) = CACHE_SIZE_LIMIT
  /\ Head(_PATH_CACHE) = <<LOG_ROOT, CachePath(2)>>
  /\ _PATH_CACHE[CACHE_SIZE_LIMIT] = <<LOG_ROOT, CachePath(CACHE_SIZE_LIMIT + 1)>>

\* The step adds a record of entry e to the Slack-fallback store.
FallbackRecordWritten(e) == slackFallbacks'[e] = slackFallbacks[e] + 1

\* C35: the suppression check and the setting of the suppression deadline
\* are one step, so that for every interleaving of failing deliveries no
\* Slack-fallback record is written inside a suppression window that another
\* record has opened: at most one record per window.
C35_OneFallbackPerWindow ==
  [][\A e \in Entries :
        FallbackRecordWritten(e) => now >= _SLACK_FALLBACK_COOLDOWN_UNTIL]_vars

\* C36: between operations the failure counter is in 0..2; it is never seen
\* at or above the threshold, under any interleaving of deliveries.
C36_CounterBelowThreshold ==
  /\ _SLACK_FAILURE_COUNT \in 0..2
  /\ _SLACK_FAILURE_COUNT < SLACK_FAILURE_THRESHOLD

\* After the breaker had opened and reset the counter, a further failure was
\* counted.
C36_Witness ==
  /\ lastStep.op = "SlackFails"
  /\ _SLACK_COOLDOWN_UNTIL > 0
  /\ _SLACK_FAILURE_COUNT = 1

\* C37: while the breaker is open (now before the cooldown deadline) no step
\* changes the deadline, in particular no failure of a delivery that was in
\* flight when the breaker opened.
C37_DeadlineFixedWhileOpen ==
  [][now < _SLACK_COOLDOWN_UNTIL =>
       _SLACK_COOLDOWN_UNTIL' = _SLACK_COOLDOWN_UNTIL]_vars

\* C38: a successful write destroys no record persisted earlier: every
\* payload in the store before the write is in the store after it, at its
\* path or under a rotated name, also when the write goes to a path that an
\* earlier event was written to.
C38_WritesKeepEarlierRecords ==
  [][\A i \in DOMAIN tasks :
        PrimaryWrites(i) =>
          \A p \in DOMAIN files : \E q \in DOMAIN files' : files'[q] = files[p]]_vars

\* C39: a _requireModuleOnce call that throws (the path rejected, the file
\* missing or the module failing to load) leaves the module cache and the
\* access order as they were before the call, also when the cache is full.
C39_ThrowLeavesCache ==
  [][(lastStep'.op = "_requireModuleOnce" /\ lastStep'.threw) =>
        /\ loadedModuleCache' = loadedModuleCache
        /\ cacheAccessOrder' = cacheAccessOrder]_vars

\* The step is a call of writeLogSafe or writeLogsSafe.
SafeCall ==
  /\ lastStep'.op = "PublicCall"
  /\ lastStep'.api \in {"writeLogSafe", "writeLogsSafe"}

\* What attempt n of the safe call of this step comes to at the checks of the
\* underlying method.
SafeAttempt(n) ==
  IF lastStep'.api = "writeLogsSafe"
  THEN writeLogsEntry(LOGGING_ENABLED, lastStep'.arg)
  ELSE writeLogEntry(LOGGING_ENABLED,
                     IF n = 1 THEN lastStep'.arg ELSE SafeRetryPayload(lastStep'.arg))

\* C40: writeLogSafe and writeLogsSafe never reject; they invoke the
\* underlying method at most twice, hand back the result of the first attempt
\* that does not throw, and hand back null when both attempts throw.
C40_SafeNeverRejects ==
  [][SafeCall =>
       /\ ~lastStep'.threw
       /\ callPc' = "returned"
       /\ lastStep'.attempts \in 1..2
       /\ ~SafeAttempt(1).threw =>
            lastStep'.attempts = 1 /\ lastStep'.result = "first"
       /\ (SafeAttempt(1).threw /\ ~SafeAttempt(2).threw) =>
            lastStep'.attempts = 2 /\ lastStep'.result = "second"
       /\ (SafeAttempt(1).threw /\ SafeAttempt(2).threw) =>
            lastStep'.attempts = 2 /\ lastStep'.result = "null"]_vars

\* A safe call whose two attempts both threw handed back null.
C40_Witness ==
  /\ lastStep.op = "PublicCall"
  /\ lastStep.api = "writeLogSafe"
  /\ lastStep.attempts = 2
  /\ lastStep.result = "null"
  /\ callPc = "returned"
====
